---- MODULE Spec2Model ----
(***************************************************************************)
(* AST -> HIR lowering (src/src/librustc/hir/lowering.rs).                 *)
(*                                                                         *)
(* The state is the LoweringContext: one variable per field the lowering   *)
(* pass mutates, plus the call stack of the helpers that take a closure    *)
(* (`frames`), the abort flag (`panicked`) and a record of the last step   *)
(* (`done`).  A helper `with_x(.., f)` is two actions: the code before     *)
(* `f(self)` (Enter) and the code after it (Exit); what happens between    *)
(* the two is whatever the recursive descent does inside `f`.              *)
(*                                                                         *)
(* Every helper of the context is an operator from a context record        *)
(* (`This`) to a context record, translated statement by statement, so     *)
(* that an action can run several calls in a row as the code does.         *)
(*                                                                         *)
(* The build modelled is one with debug assertions (and therefore overflow *)
(* checks) enabled: `debug_assert!`, `assert!`, `unwrap()` on None, `bug!` *)
(* and `panic!` all abort the pass (`panicked`).  u32 values are kept in   *)
(* the non-negative range of the checker's integers: U32_MAX stands for    *)
(* 0xFFFFFFFF and is the largest value a counter can hold.                 *)
(***************************************************************************)
EXTENDS Integers, Sequences, FiniteSets, TLC

(***************************************************************************)
(* Bounds of the exploration.                                              *)
(***************************************************************************)
\* Ids 1 .. NumOwnerIds are items (or nested imports): the possible owners.
NumOwnerIds == 2
\* The other nodes of the input: NumOwnerIds + 1 .. NumOwnerIds + NumPlainIds.
NumPlainIds == 1
\* How many ids the session hands out after the parser's.
MaxFreshIds == 1
\* How deep the helper calls of expressions may nest.
MaxDepth == 4
\* The items of the crate whose bodies are walked, and the ids of the nodes
\* of their bodies.
NumScopeItems == 1
MaxExprIds == 7
\* The arguments of a signature, and the ids of the nodes of a signature.
MaxArgs == 2
MaxSigIds == 11
\* The bounds of an `impl Trait`.
MaxBounds == 2
\* The owners of a crate of one item with associated items, and the ids of
\* its other nodes.
NumImplOwners == 5
MaxImplIds == 34
\* The items of a module of imports and macro definitions, and the ids an
\* item takes besides its own.
NumModItems == 3
MaxModItemIds == 5

(***************************************************************************)
(* Constants of the program.                                               *)
(***************************************************************************)
U32_MAX == 2147483647
HIR_ID_COUNTER_LOCKED == U32_MAX

CRATE_NODE_ID == 0
DUMMY_NODE_ID == U32_MAX
DUMMY_ITEM_LOCAL_ID == U32_MAX

\* Definitions::opt_def_index: the definition index of the definition made
\* for a node.  Definitions of distinct nodes are distinct, so an index is
\* represented by the node it was made for.
opt_def_index(id) == [def_of |-> id]
CRATE_DEF_INDEX == opt_def_index(CRATE_NODE_ID)

HirId(owner, local_id) == [owner |-> owner, local_id |-> local_id]
DUMMY_HIR_ID == HirId(CRATE_DEF_INDEX, DUMMY_ITEM_LOCAL_ID)
CRATE_HIR_ID == HirId(CRATE_DEF_INDEX, 0)

LoweredNodeId(node_id, hir_id) == [node_id |-> node_id, hir_id |-> hir_id]

\* Node ids the parser assigned are dense: 0 .. NumAstIds - 1.
NumAstIds == 1 + NumOwnerIds + NumPlainIds
AstIds == 0 .. (NumAstIds - 1)
NumScopeAstIds == 1 + NumScopeItems + 1 + MaxExprIds
NumRegionAstIds == 1 + NumScopeItems + 1 + MaxSigIds
NumImplAstIds == 1 + NumImplOwners + MaxImplIds
NumModAstIds == 1 + NumModItems + NumModItems * MaxModItemIds
OwnerIds == 1 .. NumOwnerIds
\* The other nodes of the input: expressions, blocks, visibilities, ...
PlainIds == (NumOwnerIds + 1) .. (NumAstIds - 1)

\* Option<T>: None, or Some(v) with v == Unwrap(Some(v))
None == <<>>
Some(v) == <<v>>
Unwrap(opt) == opt[1]

VARIABLES
    node_id_to_hir_id,       \* IndexVec<NodeId, HirId>: element id + 1 is the entry of id
    item_local_id_counters,  \* NodeMap<u32>: a function on the registered owners
    current_hir_id_owner,    \* Vec<(DefIndex, u32)>
    catch_scopes,            \* Vec<NodeId>
    loop_scopes,             \* Vec<NodeId>
    is_in_loop_condition,    \* bool
    is_generator,            \* bool
    bodies,                  \* BTreeMap<BodyId, Body>: a function on the body ids
    lifetimes_to_define,     \* Vec<(Span, Name)>
    is_collecting_in_band_lifetimes, \* bool
    in_scope_lifetimes,      \* Vec<Name>
    next_node_id,            \* Session: the id next_node_id() returns next
    in_band_lifetimes,       \* Session: features.in_band_lifetimes
    is_in_trait_impl,        \* bool
    items,                   \* BTreeMap<NodeId, hir::Item>: a function on the item ids
    trait_items,             \* BTreeMap<hir::TraitItemId, hir::TraitItem>
    impl_items,              \* BTreeMap<hir::ImplItemId, hir::ImplItem>
    features,                \* Session: the features of `impl Trait` that are on
    diagnostics,             \* Session: the errors reported, (code, node)
    frames,                  \* call stack: the locals of the helpers that are running f
    walk,                    \* where the walk over the input tree stands
    panicked,                \* the pass was aborted
    done                     \* the step just taken, with what it returned

vars == <<node_id_to_hir_id, item_local_id_counters, current_hir_id_owner,
          catch_scopes, loop_scopes, is_in_loop_condition, is_generator, bodies,
          lifetimes_to_define, is_collecting_in_band_lifetimes, in_scope_lifetimes,
          next_node_id, in_band_lifetimes, is_in_trait_impl, items, trait_items,
          impl_items, features, diagnostics, frames, walk, panicked, done>>

\* The LoweringContext (with the session it refers to) as a value.
This ==
    [node_id_to_hir_id |-> node_id_to_hir_id,
     item_local_id_counters |-> item_local_id_counters,
     current_hir_id_owner |-> current_hir_id_owner,
     catch_scopes |-> catch_scopes,
     loop_scopes |-> loop_scopes,
     is_in_loop_condition |-> is_in_loop_condition,
     is_generator |-> is_generator,
     bodies |-> bodies,
     lifetimes_to_define |-> lifetimes_to_define,
     is_collecting_in_band_lifetimes |-> is_collecting_in_band_lifetimes,
     in_scope_lifetimes |-> in_scope_lifetimes,
     next_node_id |-> next_node_id,
     in_band_lifetimes |-> in_band_lifetimes,
     is_in_trait_impl |-> is_in_trait_impl,
     items |-> items,
     trait_items |-> trait_items,
     impl_items |-> impl_items,
     features |-> features,
     diagnostics |-> diagnostics,
     panicked |-> panicked]

Set(this) ==
    /\ node_id_to_hir_id' = this.node_id_to_hir_id
    /\ item_local_id_counters' = this.item_local_id_counters
    /\ current_hir_id_owner' = this.current_hir_id_owner
    /\ catch_scopes' = this.catch_scopes
    /\ loop_scopes' = this.loop_scopes
    /\ is_in_loop_condition' = this.is_in_loop_condition
    /\ is_generator' = this.is_generator
    /\ bodies' = this.bodies
    /\ lifetimes_to_define' = this.lifetimes_to_define
    /\ is_collecting_in_band_lifetimes' = this.is_collecting_in_band_lifetimes
    /\ in_scope_lifetimes' = this.in_scope_lifetimes
    /\ next_node_id' = this.next_node_id
    /\ in_band_lifetimes' = this.in_band_lifetimes
    /\ is_in_trait_impl' = this.is_in_trait_impl
    /\ items' = this.items
    /\ trait_items' = this.trait_items
    /\ impl_items' = this.impl_items
    /\ features' = this.features
    /\ diagnostics' = this.diagnostics
    /\ panicked' = this.panicked

Panic(this) == [this EXCEPT !.panicked = TRUE]

\* What a call returns: the context after it and its value.
Result(this, ret) == [this |-> this, ret |-> ret]

(***************************************************************************)
(* Collections.                                                            *)
(***************************************************************************)
\* HashMap::insert; the old value is Get(map, k) taken before.
Insert(map, k, v) == [x \in (DOMAIN map) \cup {k} |-> IF x = k THEN v ELSE map[x]]
Get(map, k) == IF k \in DOMAIN map THEN Some(map[k]) ELSE None

Last(s) == s[Len(s)]
Front(s) == SubSeq(s, 1, Len(s) - 1)

\* IndexVec::resize(min_size, value) when min_size > len
Resize(vec, min_size, value) ==
    vec \o [i \in 1 .. (min_size - Len(vec)) |-> value]

\* The element of a one-element set.  The({e(x) : x \in {v}}) is
\* LET x == v IN e(x) with v computed once: it is how a call is given the
\* context the call before it left.
The(S) == CHOOSE x \in S : TRUE

\* The ids that are keys of the table with an identity (not the empty marker).
Mapped(table) == {id \in 0 .. (Len(table) - 1) : table[id + 1] # DUMMY_HIR_ID}

(***************************************************************************)
(* Identity allocation.                                                    *)
(***************************************************************************)
\* lower_node_id's closure: take the next local id of the owner on top of
\* the owner stack.
alloc_from_current_owner(this) ==
    IF Len(this.current_hir_id_owner) = 0
    THEN Result(Panic(this), DUMMY_HIR_ID)                  \* last_mut().unwrap()
    ELSE LET top == Last(this.current_hir_id_owner)
             def_index == top[1]
             local_id == top[2]
         IN  IF local_id = U32_MAX
             THEN Result(Panic(this), DUMMY_HIR_ID)         \* += 1 overflows
             ELSE Result([this EXCEPT !.current_hir_id_owner[Len(this.current_hir_id_owner)] =
                                          <<def_index, local_id + 1>>],
                         HirId(def_index, local_id))
\* Mutant: the stored counter is read but not advanced.
alloc_from_stored_counter_not_advanced(this, owner) ==
    IF owner \notin DOMAIN this.item_local_id_counters
    THEN Result(Panic(this), DUMMY_HIR_ID)
    ELSE LET local_id == this.item_local_id_counters[owner]
         IN  IF local_id = HIR_ID_COUNTER_LOCKED
             THEN Result(Panic(this), DUMMY_HIR_ID)
             ELSE Result(this, HirId(opt_def_index(owner), local_id))

\* lower_node_id_with_owner's closure: take the next local id of the stored
\* counter of `owner`.
alloc_from_stored_counter(this, owner) ==
    IF owner \notin DOMAIN this.item_local_id_counters
    THEN Result(Panic(this), DUMMY_HIR_ID)                  \* get_mut().unwrap()
    ELSE LET local_id == this.item_local_id_counters[owner]
         IN  IF local_id = HIR_ID_COUNTER_LOCKED
             THEN Result(Panic(this), DUMMY_HIR_ID)         \* debug_assert!
             ELSE Result([this EXCEPT !.item_local_id_counters[owner] = local_id + 1],
                         HirId(opt_def_index(owner), local_id))

\* The closure lower_node_id_generic is given: `via` is None for the one of
\* lower_node_id and Some(owner) for the one of lower_node_id_with_owner.
alloc_hir_id(this, via) ==
    IF via = None
    THEN alloc_from_current_owner(this)
    ELSE alloc_from_stored_counter(this, Unwrap(via))

lower_node_id_generic(this, ast_node_id, via) ==
    IF ast_node_id = DUMMY_NODE_ID
    THEN Result(this, LoweredNodeId(DUMMY_NODE_ID, DUMMY_HIR_ID))
    ELSE LET min_size == ast_node_id + 1
             this1 == IF min_size > Len(this.node_id_to_hir_id)
                      THEN [this EXCEPT !.node_id_to_hir_id =
                                Resize(this.node_id_to_hir_id, min_size, DUMMY_HIR_ID)]
                      ELSE this
             existing_hir_id == this1.node_id_to_hir_id[ast_node_id + 1]
         IN  IF existing_hir_id = DUMMY_HIR_ID
             THEN LET a == alloc_hir_id(this1, via)
                  IN  IF a.this.panicked
                      THEN Result(a.this, LoweredNodeId(ast_node_id, DUMMY_HIR_ID))
                      ELSE Result([a.this EXCEPT !.node_id_to_hir_id[ast_node_id + 1] = a.ret],
                                  LoweredNodeId(ast_node_id, a.ret))
             ELSE Result(this1, LoweredNodeId(ast_node_id, existing_hir_id))
\* Mutant: the stored identity is not looked up; every call allocates.
lower_node_id_always_allocates(this, ast_node_id) ==
    IF ast_node_id = DUMMY_NODE_ID
    THEN Result(this, LoweredNodeId(DUMMY_NODE_ID, DUMMY_HIR_ID))
    ELSE LET min_size == ast_node_id + 1
             this1 == IF min_size > Len(this.node_id_to_hir_id)
                      THEN [this EXCEPT !.node_id_to_hir_id =
                                Resize(this.node_id_to_hir_id, min_size, DUMMY_HIR_ID)]
                      ELSE this
             a == alloc_from_current_owner(this1)
         IN  IF a.this.panicked
             THEN Result(a.this, LoweredNodeId(ast_node_id, DUMMY_HIR_ID))
             ELSE Result([a.this EXCEPT !.node_id_to_hir_id[ast_node_id + 1] = a.ret],
                         LoweredNodeId(ast_node_id, a.ret))

\* Mutant: the sentinel is recognised only after a local id was taken.
lower_node_id_sentinel_checked_late(this, ast_node_id) ==
    IF ast_node_id = DUMMY_NODE_ID
    THEN Result(alloc_from_current_owner(this).this,
                LoweredNodeId(DUMMY_NODE_ID, DUMMY_HIR_ID))
    ELSE lower_node_id_generic(this, ast_node_id, None)

lower_node_id(this, ast_node_id) ==
    lower_node_id_generic(this, ast_node_id, None)

lower_node_id_with_owner(this, ast_node_id, owner) ==
    lower_node_id_generic(this, ast_node_id, Some(owner))
\* Mutant: the owner's own identity is not allocated at registration.
allocate_hir_id_counter_without_own_id(this, owner) ==
    LET old == Get(this.item_local_id_counters, owner)
        this1 == [this EXCEPT !.item_local_id_counters = Insert(@, owner, 0)]
    IN  IF old # None
        THEN Result(Panic(this1), None)
        ELSE Result(this1, None)

allocate_hir_id_counter(this, owner) ==
    LET old == Get(this.item_local_id_counters, owner)
        this1 == [this EXCEPT !.item_local_id_counters = Insert(@, owner, 0)]
    IN  IF old # None
        THEN Result(Panic(this1), None)                     \* bug!("... twice")
        ELSE Result(lower_node_id_with_owner(this1, owner, owner).this, None)

\* Session::next_node_id
sess_next_node_id(this) ==
    Result([this EXCEPT !.next_node_id = @ + 1], this.next_node_id)

\* Mutant: the session's counter is read but not advanced.
next_id_without_advance(this) ==
    lower_node_id(this, this.next_node_id - 1)

next_id(this) ==
    The({lower_node_id(n.this, n.ret) : n \in {sess_next_node_id(this)}})
\* Mutant: the stored counter is read but not replaced by the sentinel.
with_hir_id_owner_enter_without_lock(this, owner) ==
    LET old == Get(this.item_local_id_counters, owner)
    IN  IF old = None
        THEN Result(Panic(this), None)
        ELSE LET counter == Unwrap(old)
                 def_index == opt_def_index(owner)
             IN  Result([this EXCEPT !.current_hir_id_owner = Append(@, <<def_index, counter>>)],
                        [owner |-> owner, counter |-> counter, def_index |-> def_index])

\* with_hir_id_owner up to f(self); ret is (owner, counter, def_index), the
\* locals the rest of the call uses.
with_hir_id_owner_enter(this, owner) ==
    LET old == Get(this.item_local_id_counters, owner)
        this1 == [this EXCEPT !.item_local_id_counters = Insert(@, owner, HIR_ID_COUNTER_LOCKED)]
    IN  IF old = None
        THEN Result(Panic(this1), None)                     \* insert(..).unwrap()
        ELSE LET counter == Unwrap(old)
                 def_index == opt_def_index(owner)
             IN  Result([this1 EXCEPT !.current_hir_id_owner = Append(@, <<def_index, counter>>)],
                        [owner |-> owner, counter |-> counter, def_index |-> def_index])
\* Mutant: the counter saved at entry is written back (a lost update).
with_hir_id_owner_exit_writes_saved(this, owner, counter, def_index) ==
    IF Len(this.current_hir_id_owner) = 0
    THEN Result(Panic(this), None)
    ELSE LET this1 == [this EXCEPT !.current_hir_id_owner = Front(@)]
             prev == Get(this1.item_local_id_counters, owner)
             this2 == [this1 EXCEPT !.item_local_id_counters = Insert(@, owner, counter)]
         IN  IF prev = None \/ Unwrap(prev) # HIR_ID_COUNTER_LOCKED
             THEN Result(Panic(this2), None)
             ELSE Result(this2, None)

\* with_hir_id_owner after f(self)
with_hir_id_owner_exit(this, owner, counter, def_index) ==
    IF Len(this.current_hir_id_owner) = 0
    THEN Result(Panic(this), None)                          \* pop().unwrap()
    ELSE LET popped == Last(this.current_hir_id_owner)
             new_def_index == popped[1]
             new_counter == popped[2]
             this1 == [this EXCEPT !.current_hir_id_owner = Front(@)]
         IN  IF def_index # new_def_index \/ ~(new_counter >= counter)
             THEN Result(Panic(this1), None)                \* debug_assert! x 2
             ELSE LET prev == Get(this1.item_local_id_counters, owner)
                      this2 == [this1 EXCEPT !.item_local_id_counters =
                                    Insert(@, owner, new_counter)]
                  IN  IF prev = None \/ Unwrap(prev) # HIR_ID_COUNTER_LOCKED
                      THEN Result(Panic(this2), None)       \* unwrap, debug_assert!
                      ELSE Result(this2, None)

(***************************************************************************)
(* Scope context.                                                          *)
(***************************************************************************)
\* with_catch_scope up to f(self); ret is the local `len`
with_catch_scope_enter(this, catch_id) ==
    Result([this EXCEPT !.catch_scopes = Append(@, catch_id)],
           [len |-> Len(this.catch_scopes)])

\* with_catch_scope after f(self)
with_catch_scope_exit(this, len) ==
    IF len + 1 # Len(this.catch_scopes)
    THEN Result(Panic(this), None)                          \* assert_eq!
    ELSE Result([this EXCEPT !.catch_scopes = Front(@)], None)

\* Mutant: the flag is saved but not cleared for the body of the loop.
with_loop_scope_enter_keeps_flag(this, loop_id) ==
    Result([this EXCEPT !.loop_scopes = Append(@, loop_id)],
           [was_in_loop_condition |-> this.is_in_loop_condition,
            len |-> Len(this.loop_scopes)])

\* with_loop_scope up to f(self); ret is (was_in_loop_condition, len)
with_loop_scope_enter(this, loop_id) ==
    Result([this EXCEPT !.is_in_loop_condition = FALSE,
                        !.loop_scopes = Append(@, loop_id)],
           [was_in_loop_condition |-> this.is_in_loop_condition,
            len |-> Len(this.loop_scopes)])

\* with_loop_scope after f(self)
with_loop_scope_exit(this, len, was_in_loop_condition) ==
    IF len + 1 # Len(this.loop_scopes)
    THEN Result(Panic(this), None)                          \* assert_eq!
    ELSE Result([this EXCEPT !.loop_scopes = Front(@),
                             !.is_in_loop_condition = was_in_loop_condition], None)

\* with_loop_condition_scope up to f(self); ret is was_in_loop_condition
with_loop_condition_scope_enter(this) ==
    Result([this EXCEPT !.is_in_loop_condition = TRUE],
           [was_in_loop_condition |-> this.is_in_loop_condition])

\* with_loop_condition_scope after f(self)
with_loop_condition_scope_exit(this, was_in_loop_condition) ==
    Result([this EXCEPT !.is_in_loop_condition = was_in_loop_condition], None)

\* with_new_scopes up to f(self); ret is (was_in_loop_condition,
\* catch_scopes, loop_scopes), the values taken out of the context
with_new_scopes_enter(this) ==
    Result([this EXCEPT !.is_in_loop_condition = FALSE,
                        !.catch_scopes = <<>>,
                        !.loop_scopes = <<>>],
           [was_in_loop_condition |-> this.is_in_loop_condition,
            catch_scopes |-> this.catch_scopes,
            loop_scopes |-> this.loop_scopes])
\* Mutant: the loop targets of the body are left in place.
with_new_scopes_exit_keeps_loop_scopes(this, was_in_loop_condition, saved_catch_scopes, saved_loop_scopes) ==
    Result([this EXCEPT !.catch_scopes = saved_catch_scopes,
                        !.is_in_loop_condition = was_in_loop_condition], None)

\* with_new_scopes after f(self)
with_new_scopes_exit(this, was_in_loop_condition, saved_catch_scopes, saved_loop_scopes) ==
    Result([this EXCEPT !.catch_scopes = saved_catch_scopes,
                        !.loop_scopes = saved_loop_scopes,
                        !.is_in_loop_condition = was_in_loop_condition], None)

\* lower_pat of a binding pattern without a sub-pattern
lower_pat(this, p) ==
    lower_node_id(this, p)

\* lower_arg; an argument is (id, pat, ty), the ids of its three nodes
lower_arg(this, arg) ==
    The({The({Result(p.this, [id |-> a.ret.node_id, pat |-> p.ret.node_id]) :
                 p \in {lower_pat(a.this, arg.pat)}}) :
            a \in {lower_node_id(this, arg.id)}})

RECURSIVE lower_args(_, _)
\* decl.inputs.iter().map(|x| self.lower_arg(x)).collect()
lower_args(this, inputs) ==
    IF inputs = <<>>
    THEN Result(this, <<>>)
    ELSE The({The({Result(rest.this, <<a.ret>> \o rest.ret) :
                      rest \in {lower_args(a.this, Tail(inputs))}}) :
                 a \in {lower_arg(this, Head(inputs))}})

\* record_body; `value` is the id of the lowered expression, which is the
\* id of the body, and `inputs` is decl.inputs (empty where decl is None)
record_body(this, value, inputs) ==
    The({LET body == [arguments |-> args.ret,
                      is_generator |-> args.this.is_generator,
                      value |-> value]
             id == value
         IN  Result([args.this EXCEPT !.bodies = Insert(@, id, body)], id) :
            args \in {lower_args(this, inputs)}})

\* Mutant: the flag is saved but not cleared.
lower_body_enter_without_clear(this) ==
    Result(this, [prev |-> this.is_generator])

\* lower_body up to f(self); ret is the local `prev`
lower_body_enter(this) ==
    Result([this EXCEPT !.is_generator = FALSE], [prev |-> this.is_generator])

\* lower_body after f(self), which returned the expression `result`
lower_body_exit(this, prev, result, inputs) ==
    The({Result([r.this EXCEPT !.is_generator = prev], r.ret) :
            r \in {record_body(this, result, inputs)}})

\* hir::ScopeTarget and hir::LoopIdResult
ScopeTarget_Block(id) == [target |-> "Block", id |-> Some(id), error |-> None]
ScopeTarget_Loop_Ok(id) == [target |-> "Loop", id |-> Some(id), error |-> None]
ScopeTarget_Loop_Err(error) == [target |-> "Loop", id |-> None, error |-> Some(error)]

\* lower_loop_destination(None): the target of a break or continue without
\* a label
lower_loop_destination(this) ==
    IF Len(this.loop_scopes) = 0
    THEN Result(this, ScopeTarget_Loop_Err("OutsideLoopScope"))
    ELSE The({Result(r.this, ScopeTarget_Loop_Ok(r.ret.node_id)) :
                 r \in {lower_node_id(this, Last(this.loop_scopes))}})

\* Mutant: an unlabeled break or continue is resolved whatever the flag.
lower_expr_break_flag_ignored(this, e) ==
    The({The({Result(r.this, [id |-> r.ret.node_id, target_id |-> label_result.ret]) :
                 r \in {lower_node_id(label_result.this, e)}}) :
            label_result \in {lower_loop_destination(this)}})

\* lower_expr of ExprKind::Break(None, None) and of ExprKind::Continue(None)
lower_expr_break(this, e) ==
    The({The({Result(r.this, [id |-> r.ret.node_id, target_id |-> label_result.ret]) :
                 r \in {lower_node_id(label_result.this, e)}}) :
            label_result \in {IF this.is_in_loop_condition
                              THEN Result(this, ScopeTarget_Loop_Err("UnlabeledCfInWhileCondition"))
                              ELSE lower_loop_destination(this)}})

\* lower_expr of ExprKind::Lit
lower_expr_lit(this, e) ==
    The({Result(r.this, [id |-> r.ret.node_id]) : r \in {lower_node_id(this, e)}})

\* self.expr(..), self.pat(..) and the builders made of one of them: each
\* takes one fresh id
expr(this) ==
    The({Result(r.this, r.ret.node_id) : r \in {next_id(this)}})

RECURSIVE exprs(_, _)
\* n builder calls in a row
exprs(this, n) ==
    IF n = 0
    THEN this
    ELSE The({IF made.this.panicked THEN made.this ELSE exprs(made.this, n - 1) :
                 made \in {expr(this)}})

\* lower_expr of ExprKind::Yield(None)
lower_expr_yield(this, e) ==
    The({The({Result(r.this, [id |-> r.ret.node_id]) :
                 r \in {lower_node_id(unit.this, e)}}) :
            unit \in {expr([this EXCEPT !.is_generator = TRUE])}})
\* Mutant: the error arm leaves through the outermost catch target.
lower_expr_try_outermost_catch(this, e) ==
    The({LET ret_expr == IF Len(this1.catch_scopes) > 0
                         THEN [exit |-> "ExprBreak",
                               target_id |-> ScopeTarget_Block(Head(this1.catch_scopes))]
                         ELSE [exit |-> "ExprRet", target_id |-> None]
         IN  The({The({Result(r.this, [id |-> r.ret.node_id, err_arm |-> ret_expr]) :
                          r \in {lower_node_id(this2, e)}}) :
                     this2 \in {exprs(this1, 2)}}) :
            this1 \in {exprs(this, 11)}})

\* lower_expr of ExprKind::Try after the operand was lowered.  The builders
\* called before catch_scopes is read: expr_std_path, expr_call (discr),
\* pat_ident, expr_ident_with_attrs, pat_ok (ok_arm), pat_ident,
\* expr_std_path, expr_ident, expr_call, expr_std_path, expr_call (err_arm);
\* after it: expr (the exit), pat_err.
lower_expr_try(this, e) ==
    The({LET catch_scope == IF Len(this1.catch_scopes) > 0
                            THEN Some(Last(this1.catch_scopes)) ELSE None
             ret_expr == IF catch_scope # None
                         THEN [exit |-> "ExprBreak",
                               target_id |-> ScopeTarget_Block(Unwrap(catch_scope))]
                         ELSE [exit |-> "ExprRet", target_id |-> None]
         IN  The({The({Result(r.this, [id |-> r.ret.node_id, err_arm |-> ret_expr]) :
                          r \in {lower_node_id(this2, e)}}) :
                     this2 \in {exprs(this1, 2)}}) :
            this1 \in {exprs(this, 11)}})

\* lower_block after its statements: the block produced
lower_block(this, b, targeted_by_break) ==
    The({Result(r.this, [id |-> r.ret.node_id, targeted_by_break |-> targeted_by_break]) :
            r \in {lower_node_id(this, b)}})

(***************************************************************************)
(* Desugarings: ranges.                                                    *)
(***************************************************************************)
HalfOpen == "HalfOpen"
Closed == "Closed"
RangeLimits == {HalfOpen, Closed}

\* `(&Some(..), &None, lims) => ..`: the name of the struct of ::ops, or the
\* fatal error
range_path_closed_without_end_as_half_open(e1, e2, lims) ==
    CASE e1 = None /\ e2 = None -> "RangeFull"
      [] e1 # None /\ e2 = None -> "RangeFrom"
      [] e1 = None /\ e2 # None /\ lims = HalfOpen -> "RangeTo"
      [] e1 # None /\ e2 # None /\ lims = HalfOpen -> "Range"
      [] e1 = None /\ e2 # None /\ lims = Closed -> "RangeToInclusive"
      [] e1 # None /\ e2 # None /\ lims = Closed -> "RangeInclusive"

range_path(e1, e2, lims) ==
    CASE e1 = None /\ e2 = None /\ lims = HalfOpen -> "RangeFull"
      [] e1 # None /\ e2 = None /\ lims = HalfOpen -> "RangeFrom"
      [] e1 = None /\ e2 # None /\ lims = HalfOpen -> "RangeTo"
      [] e1 # None /\ e2 # None /\ lims = HalfOpen -> "Range"
      [] e1 = None /\ e2 # None /\ lims = Closed -> "RangeToInclusive"
      [] e1 # None /\ e2 # None /\ lims = Closed -> "RangeInclusive"
      [] e2 = None /\ lims = Closed -> "span_fatal"

\* e1.iter().map(|e| ("start", e)).chain(e2.iter().map(|e| ("end", e)))
range_operands_end_first(e1, e2) ==
    [i \in 1 .. Len(e2) |-> <<"end", e2[i]>>]
        \o [i \in 1 .. Len(e1) |-> <<"start", e1[i]>>]

range_operands(e1, e2) ==
    [i \in 1 .. Len(e1) |-> <<"start", e1[i]>>]
        \o [i \in 1 .. Len(e2) |-> <<"end", e2[i]>>]

\* self.field(name, expr, span)
field(name, value) == [name |-> name, expr |-> value, is_shorthand |-> FALSE]

RECURSIVE range_fields(_, _)
\* .map(|(s, e)| { let expr = P(self.lower_expr(&e)); .. self.field(..) })
\* over operands that are literals; ret is the fields
range_fields(this, operands) ==
    IF operands = <<>>
    THEN Result(this, <<>>)
    ELSE The({IF lowered.this.panicked
              THEN Result(lowered.this, <<>>)
              ELSE The({Result(rest.this,
                               <<field(Head(operands)[1], lowered.ret)>> \o rest.ret) :
                           rest \in {range_fields(lowered.this, Tail(operands))}}) :
                 lowered \in {lower_expr_lit(this, Head(operands)[2])}})

\* self.std_path(span, components, is_value): ::std::components
std_path(components, is_value) ==
    [segments |-> <<"{{root}}", "std">> \o components, is_value |-> is_value]

\* lower_expr of ExprKind::Range(e1, e2, lims), its operands literals
lower_expr_range(this, e, e1, e2, lims) ==
    The({IF path = "span_fatal"
         THEN Result(Panic(this), None)
         ELSE The({The({Result(r.this,
                               IF fields.ret = <<>>
                               THEN [id |-> r.ret.node_id, node |-> "ExprPath",
                                     path |-> std_path(<<"ops", path>>, TRUE),
                                     fields |-> <<>>]
                               ELSE [id |-> r.ret.node_id, node |-> "ExprStruct",
                                     path |-> std_path(<<"ops", path>>, FALSE),
                                     fields |-> fields.ret]) :
                           r \in {lower_node_id(fields.this, e)}}) :
                      fields \in {range_fields(this, range_operands(e1, e2))}}) :
            path \in {range_path(e1, e2, lims)}})

(***************************************************************************)
(* Desugarings: the builders of output nodes and the `for` loop.  A node   *)
(* of the output is a record of its kind (`node`), its id where the pass   *)
(* gives it one, and its parts.                                            *)
(***************************************************************************)
\* self.expr(span, node, attrs)
expr_node(this, node) ==
    The({Result(r.this, [id |-> r.ret.node_id] @@ node) : r \in {next_id(this)}})

\* self.pat(span, pat)
pat(this, node) ==
    The({Result(r.this, [id |-> r.ret.node_id] @@ node) : r \in {next_id(this)}})

\* self.pat_ident_binding_mode(span, name, bm)
pat_ident_binding_mode(this, name, bm) ==
    The({Result(r.this, [id |-> r.ret.node_id, node |-> "Binding", bm |-> bm,
                         canonical_id |-> r.ret.node_id, name |-> name]) :
            r \in {next_id(this)}})

pat_ident(this, name) == pat_ident_binding_mode(this, name, "Unannotated")

\* self.pat_std_enum(span, components, subpats)
pat_std_enum(this, components, subpats) ==
    pat(this, IF subpats = <<>>
              THEN [node |-> "Path", path |-> std_path(components, TRUE)]
              ELSE [node |-> "TupleStruct", path |-> std_path(components, TRUE),
                    subpats |-> subpats])

pat_some(this, subpat) == pat_std_enum(this, <<"option", "Option", "Some">>, <<subpat>>)
pat_none(this) == pat_std_enum(this, <<"option", "Option", "None">>, <<>>)

\* self.arm(pats, expr)
arm(pats, body) == [pats |-> pats, guard |-> None, body |-> body]

\* self.expr_ident(span, id, binding)
expr_ident(this, name, binding) ==
    expr_node(this, [node |-> "ExprPath", def |-> <<"Local", binding>>, name |-> name])

expr_mut_addr_of(this, e) == expr_node(this, [node |-> "ExprAddrOf", expr |-> e])

expr_std_path(this, components) ==
    expr_node(this, [node |-> "ExprPath", path |-> std_path(components, TRUE)])

expr_call(this, e, args) == expr_node(this, [node |-> "ExprCall", callee |-> e, args |-> args])

expr_match(this, arg, arms, source) ==
    expr_node(this, [node |-> "ExprMatch", arg |-> arg, arms |-> arms, source |-> source])

expr_block(this, b) == expr_node(this, [node |-> "ExprBlock", block |-> b])

\* self.expr_break(span, attrs)
expr_break(this) ==
    The({expr_node(dest.this, [node |-> "ExprBreak", target_id |-> dest.ret]) :
            dest \in {lower_loop_destination(this)}})

\* respan(span, hir::StmtExpr(e, self.next_id().node_id))
stmt_expr(this, e) ==
    The({Result(r.this, [node |-> "StmtExpr", id |-> r.ret.node_id, expr |-> e]) :
            r \in {next_id(this)}})

\* self.stmt_let_pat(sp, ex, pat, source)
stmt_let_pat(this, ex, p, source) ==
    The({The({Result(decl.this,
                     [node |-> "StmtDecl", id |-> decl.ret.node_id,
                      local |-> [id |-> local.ret.node_id, pat |-> p, init |-> ex,
                                 source |-> source]]) :
                 decl \in {next_id(local.this)}}) :
            local \in {next_id(this)}})

\* self.stmt_let(sp, false, ident, ex); ret is (stmt, pat_id)
stmt_let(this, ident, ex) ==
    The({The({Result(stmt.this, <<stmt.ret, p.ret.id>>) :
                 stmt \in {stmt_let_pat(p.this, Some(ex), p.ret, "Normal")}}) :
            p \in {pat_ident(this, ident)}})

\* self.block_all(span, stmts, expr)
block_all(this, stmts, e) ==
    The({Result(r.this, [id |-> r.ret.node_id, stmts |-> stmts, expr |-> e,
                         targeted_by_break |-> FALSE]) :
            r \in {next_id(this)}})

\* Mutant: the break is made outside the target scope of the loop.
with_loop_break_outside_scope(this, e) ==
    expr_break(this)

\* self.with_loop_scope(e.id, |this| f(this)) for an f that lowers no
\* node of the input
with_loop_break(this, e) ==
    The({The({The({Result(left.this, made.ret) :
                      left \in {with_loop_scope_exit(made.this, entered.ret.len,
                                                     entered.ret.was_in_loop_condition)}}) :
                 made \in {expr_break(entered.this)}}) :
            entered \in {with_loop_scope_enter(this, e)}})

\* `::std::option::Option::Some(val) => next = val`
for_loop_pat_arm(this, next_pat) ==
    The({The({The({The({The({Result(some_pat.this, arm(<<some_pat.ret>>, assign.ret)) :
                                some_pat \in {pat_some(assign.this, val_pat.ret)}}) :
                           assign \in {expr_node(next_expr.this,
                                                 [node |-> "ExprAssign",
                                                  lhs |-> next_expr.ret,
                                                  rhs |-> val_expr.ret])}}) :
                      next_expr \in {expr_ident(val_expr.this, "__next", next_pat.id)}}) :
                 val_expr \in {expr_ident(val_pat.this, "val", val_pat.ret.id)}}) :
            val_pat \in {pat_ident(this, "val")}})

\* `::std::option::Option::None => break`
for_loop_break_arm(this, e) ==
    The({The({Result(p.this, arm(<<p.ret>>, break_expr.ret)) :
                 p \in {pat_none(break_expr.this)}}) :
            break_expr \in {with_loop_break(this, e)}})

\* `match ::std::iter::Iterator::next(&mut iter) { ... }`
for_loop_match_expr(this, iter_pat, arms) ==
    The({The({The({The({expr_match(next_expr.this, next_expr.ret, arms, "ForLoopDesugar") :
                           next_expr \in {expr_call(next_path.this, next_path.ret,
                                                    <<ref_mut_iter.ret>>)}}) :
                      next_path \in {expr_std_path(ref_mut_iter.this,
                                                   <<"iter", "Iterator", "next">>)}}) :
                 ref_mut_iter \in {expr_mut_addr_of(iter.this, iter.ret)}}) :
            iter \in {expr_ident(this, "iter", iter_pat.id)}})

\* Mutant: the body runs before the pattern is bound.
for_loop_stmts_body_before_pat(next_let, match_stmt, pat_let, body_stmt) ==
    <<next_let, match_stmt, body_stmt, pat_let>>

\* hir_vec![next_let, match_stmt, pat_let, body_stmt]
for_loop_stmts(next_let, match_stmt, pat_let, body_stmt) ==
    <<next_let, match_stmt, pat_let, body_stmt>>

\* lower_expr of ExprKind::ForLoop(pat, head, body, None) with a literal
\* or an unlabeled break for head, up to the lowering of the body; ret is
\* what the rest uses
lower_expr_for_loop_enter(this, e, p, head, head_is_break) ==
    The({The({The({The({The({The({The({The({The({The({The({The({
        Result(entered.this,
               [head |-> [node |-> IF head_is_break THEN "ExprBreak" ELSE "ExprLit"]
                            @@ lowered_head.ret,
                iter_pat |-> iter_pat.ret,
                next_let |-> next_let.ret,
                match_stmt |-> match_stmt.ret,
                pat_let |-> pat_let.ret,
                len |-> entered.ret.len,
                was_in_loop_condition |-> entered.ret.was_in_loop_condition]) :
        entered \in {with_loop_scope_enter(pat_let.this, e)}}) :
        pat_let \in {stmt_let_pat(lowered_pat.this, Some(next_expr.ret),
                                  [node |-> "Lowered", id |-> lowered_pat.ret.node_id],
                                  "ForLoopDesugar")}}) :
        lowered_pat \in {lower_pat(next_let.this, p)}}) :
        next_let \in {stmt_let_pat(next_expr.this, None, next_pat.ret, "ForLoopDesugar")}}) :
        next_expr \in {expr_ident(match_stmt.this, "__next", next_pat.ret.id)}}) :
        match_stmt \in {stmt_expr(match_expr.this, match_expr.ret)}}) :
        match_expr \in {for_loop_match_expr(iter_pat.this, iter_pat.ret,
                                            <<pat_arm.ret, break_arm.ret>>)}}) :
        iter_pat \in {pat_ident_binding_mode(break_arm.this, "iter", "Mutable")}}) :
        break_arm \in {for_loop_break_arm(pat_arm.this, e)}}) :
        pat_arm \in {for_loop_pat_arm(next_pat.this, next_pat.ret)}}) :
        next_pat \in {pat_ident_binding_mode(lowered_head.this, "__next", "Mutable")}}) :
        lowered_head \in {IF head_is_break THEN lower_expr_break(this, head)
                          ELSE lower_expr_lit(this, head)}})

\* `[opt_ident]: loop { ... }` from the lowered body on
for_loop_loop_expr(this, e, body, made, child) ==
    The({The({The({The({The({The({
        Result(r.this, [id |-> r.ret.node_id, node |-> "ExprLoop",
                        block |-> loop_block.ret, label |-> None,
                        source |-> "ForLoop"]) :
        r \in {lower_node_id(loop_block.this, e)}}) :
        loop_block \in {block_all(body_stmt.this,
                                  for_loop_stmts(made.next_let, made.match_stmt,
                                                 made.pat_let, body_stmt.ret),
                                  None)}}) :
        body_stmt \in {stmt_expr(body_expr.this, body_expr.ret)}}) :
        body_expr \in {expr_block(left.this, [expr |-> child] @@ body_block.ret)}}) :
        left \in {with_loop_scope_exit(body_block.this, made.len,
                                       made.was_in_loop_condition)}}) :
        body_block \in {lower_block(this, body, FALSE)}})

\* lower_expr of ExprKind::ForLoop from the lowered body on; `made` is what
\* was made before it and `child` the trailing expression of the body
lower_expr_for_loop_exit(this, e, body, made, child) ==
    The({The({The({The({The({The({The({
        expr_block(block.this, block.ret) :
        block \in {block_all(result.this, <<let_stmt.ret[1]>>, Some(result.ret))}}) :
        result \in {expr_ident(let_stmt.this, "_result", let_stmt.ret[2])}}) :
        let_stmt \in {stmt_let(match_expr.this, "_result", match_expr.ret)}}) :
        match_expr \in {expr_match(into_iter_expr.this, into_iter_expr.ret,
                                   <<arm(<<made.iter_pat>>, loop_expr.ret)>>,
                                   "ForLoopDesugar")}}) :
        into_iter_expr \in {expr_call(into_iter.this, into_iter.ret, <<made.head>>)}}) :
        into_iter \in {expr_std_path(loop_expr.this,
                                     <<"iter", "IntoIterator", "into_iter">>)}}) :
        loop_expr \in {for_loop_loop_expr(this, e, body, made, child)}})

(***************************************************************************)
(* Desugarings: placement `in PLACER VALUE`.                               *)
(***************************************************************************)
\* self.stmt_let(sp, true, ident, ex); ret is (stmt, pat_id)
stmt_let_mut(this, ident, ex) ==
    The({The({Result(stmt.this, <<stmt.ret, p.ret.id>>) :
                 stmt \in {stmt_let_pat(p.this, Some(ex), p.ret, "Normal")}}) :
            p \in {pat_ident_binding_mode(this, ident, "Mutable")}})

\* self.signal_block_expr(stmts, expr, span, rule, attrs)
signal_block_expr(this, stmts, e, rule) ==
    The({expr_block(r.this, [id |-> r.ret.node_id, stmts |-> stmts, expr |-> Some(e),
                             targeted_by_break |-> FALSE, rules |-> rule]) :
            r \in {next_id(this)}})

\* make_call(this, p, args) of ExprKind::InPlace
make_call(this, p, args) ==
    The({expr_call(path.this, path.ret, args) : path \in {expr_std_path(this, p)}})

\* Mutant: the place is made before the placer is bound.
in_place_stmts_place_first(s1, s2, s3) == <<s2, s1, s3>>

\* hir_vec![s1, s2, s3]
in_place_stmts(s1, s2, s3) == <<s1, s2, s3>>

\* `let mut place = Placer::make_place(placer);`
in_place_s2(this, placer_binding) ==
    The({The({stmt_let_mut(call.this, "place", call.ret) :
                 call \in {make_call(placer.this, <<"ops", "Placer", "make_place">>,
                                     <<placer.ret>>)}}) :
            placer \in {expr_ident(this, "placer", placer_binding)}})

\* `let p_ptr = Place::pointer(&mut place);`
in_place_s3(this, place_binding) ==
    The({The({The({stmt_let(call.this, "p_ptr", call.ret) :
                      call \in {make_call(addr.this, <<"ops", "Place", "pointer">>,
                                          <<addr.ret>>)}}) :
                 addr \in {expr_mut_addr_of(agent.this, agent.ret)}}) :
            agent \in {expr_ident(this, "place", place_binding)}})

\* `push_unsafe!({ move_val_init(p_ptr, pop_unsafe!(EXPR)); InPlace::finalize(place) })`
in_place_expr(this, value, place_binding, p_ptr_binding) ==
    The({The({The({The({The({The({
        signal_block_expr(call.this,
                          <<[node |-> "StmtSemi", id |-> semi.ret.node_id,
                             expr |-> call_move_val_init.ret]>>,
                          call.ret, "PushUnsafeBlock") :
        call \in {make_call(place.this, <<"ops", "InPlace", "finalize">>, <<place.ret>>)}}) :
        place \in {expr_ident(semi.this, "place", place_binding)}}) :
        semi \in {next_id(call_move_val_init.this)}}) :
        call_move_val_init \in {make_call(ptr.this, <<"intrinsics", "move_val_init">>,
                                          <<ptr.ret, pop_unsafe_expr.ret>>)}}) :
        ptr \in {expr_ident(pop_unsafe_expr.this, "p_ptr", p_ptr_binding)}}) :
        pop_unsafe_expr \in {signal_block_expr(this, <<>>, value, "PopUnsafeBlock")}})

\* lower_expr of ExprKind::InPlace(placer, value_expr), its operands
\* literals
lower_expr_in_place(this, e, placer, value) ==
    The({The({The({The({The({The({The({The({
        Result(r.this, [id |-> r.ret.node_id, node |-> "ExprBlock", block |-> block.ret]) :
        r \in {lower_node_id(block.this, e)}}) :
        block \in {block_all(made.this, in_place_stmts(s1.ret[1], s2.ret[1], s3.ret[1]),
                             Some(made.ret))}}) :
        made \in {in_place_expr(s3.this, [node |-> "ExprLit"] @@ value_expr.ret,
                                s2.ret[2], s3.ret[2])}}) :
        s3 \in {in_place_s3(s2.this, s2.ret[2])}}) :
        s2 \in {in_place_s2(s1.this, s1.ret[2])}}) :
        s1 \in {stmt_let(value_expr.this, "placer", [node |-> "ExprLit"] @@ placer_expr.ret)}}) :
        value_expr \in {lower_expr_lit(placer_expr.this, value)}}) :
        placer_expr \in {lower_expr_lit(this, placer)}})

(***************************************************************************)
(* Desugarings: `while let`, and break and continue with a label.          *)
(***************************************************************************)
\* self.pat_wild(span)
pat_wild(this) == pat(this, [node |-> "Wild"])

\* self.block_expr(expr)
block_expr(this, e) == block_all(this, <<>>, Some(e))

\* lower_loop_destination(Some((id, label_ident))); def is what the
\* resolver recorded for the label: Def::Label(loop_id) or something else
lower_loop_destination_some(this, def) ==
    IF def[1] = "Label"
    THEN The({Result(r.this, ScopeTarget_Loop_Ok(r.ret.node_id)) :
                 r \in {lower_node_id(this, def[2])}})
    ELSE Result(this, ScopeTarget_Loop_Err("UnresolvedLabel"))

\* lower_expr of ExprKind::Break(Some(label), None) and of
\* ExprKind::Continue(Some(label))
lower_expr_break_labeled(this, e, def) ==
    The({The({Result(r.this, [id |-> r.ret.node_id, target_id |-> label_result.ret]) :
                 r \in {lower_node_id(label_result.this, e)}}) :
            label_result \in {lower_loop_destination_some(this, def)}})

\* lower_expr of ExprKind::WhileLet inside with_loop_scope, from the end
\* of lower_block up to the lowering of the subject
lower_expr_while_let_body(this, body, child) ==
    The({The({The({Result(entered.this,
                          [body |-> [expr |-> child] @@ body_block.ret,
                           break_expr |-> break_expr.ret,
                           was_in_loop_condition |-> entered.ret.was_in_loop_condition]) :
                      entered \in {with_loop_condition_scope_enter(break_expr.this)}}) :
                 break_expr \in {expr_break(body_block.this)}}) :
            body_block \in {lower_block(this, body, FALSE)}})

\* Mutant: the arm of the wildcard comes first.
lower_expr_while_let_exit_wild_arm_first(this, e, p, made, sub_expr, len, was_in_loop_condition) ==
    The({The({The({The({The({The({The({The({
        Result(r.this, [id |-> r.ret.node_id, node |-> "ExprLoop",
                        block |-> loop_block.ret, label |-> None,
                        source |-> "WhileLet"]) :
        r \in {lower_node_id(loop_block.this, e)}}) :
        loop_block \in {block_expr(match_expr.this, match_expr.ret)}}) :
        match_expr \in {expr_match(pat_under.this,
                                   [node |-> "Lowered", id |-> sub_expr],
                                   <<arm(<<pat_under.ret>>, made.break_expr),
                                     arm(<<[node |-> "Lowered", id |-> lowered_pat.ret.node_id]>>,
                                         body_expr.ret)>>,
                                   "WhileLetDesugar")}}) :
        pat_under \in {pat_wild(lowered_pat.this)}}) :
        lowered_pat \in {lower_pat(body_expr.this, p)}}) :
        body_expr \in {expr_block(left_loop.this, made.body)}}) :
        left_loop \in {with_loop_scope_exit(left_cond.this, len, was_in_loop_condition)}}) :
        left_cond \in {with_loop_condition_scope_exit(this, made.was_in_loop_condition)}})

\* lower_expr of ExprKind::WhileLet from the lowered subject on
lower_expr_while_let_exit(this, e, p, made, sub_expr, len, was_in_loop_condition) ==
    The({The({The({The({The({The({The({The({
        Result(r.this, [id |-> r.ret.node_id, node |-> "ExprLoop",
                        block |-> loop_block.ret, label |-> None,
                        source |-> "WhileLet"]) :
        r \in {lower_node_id(loop_block.this, e)}}) :
        loop_block \in {block_expr(match_expr.this, match_expr.ret)}}) :
        match_expr \in {expr_match(pat_under.this,
                                   [node |-> "Lowered", id |-> sub_expr],
                                   <<arm(<<[node |-> "Lowered", id |-> lowered_pat.ret.node_id]>>,
                                         body_expr.ret),
                                     arm(<<pat_under.ret>>, made.break_expr)>>,
                                   "WhileLetDesugar")}}) :
        pat_under \in {pat_wild(lowered_pat.this)}}) :
        lowered_pat \in {lower_pat(body_expr.this, p)}}) :
        body_expr \in {expr_block(left_loop.this, made.body)}}) :
        left_loop \in {with_loop_scope_exit(left_cond.this, len, was_in_loop_condition)}}) :
        left_cond \in {with_loop_condition_scope_exit(this, made.was_in_loop_condition)}})

(***************************************************************************)
(* In-band lifetimes.                                                      *)
(***************************************************************************)
\* A lifetime of the input is (id, name); its span is represented by its
\* id.  Names other than these two are ordinary names.
UnderscoreName == "'_"
StaticName == "'static"

Contains(s, x) == \E i \in 1 .. Len(s) : s[i] = x

\* hir::LifetimeName
LifetimeName_Implicit == [kind |-> "Implicit"]
LifetimeName_Underscore == [kind |-> "Underscore"]
LifetimeName_Static == [kind |-> "Static"]
LifetimeName_Name(name) == [kind |-> "Name", name |-> name]

\* `let name = match self.lower_ident(l.ident) { .. }` without the queue
lower_lifetime_name(name) ==
    CASE name = UnderscoreName -> LifetimeName_Underscore
      [] name = StaticName -> LifetimeName_Static
      [] OTHER -> LifetimeName_Name(name)

\* Mutant: the reference without region is lowered as one to `'a`.
elided_lifetime_named(this) ==
    LET this1 == IF /\ this.is_collecting_in_band_lifetimes
                    /\ ~Contains(this.in_scope_lifetimes, "'a")
                 THEN [this EXCEPT !.lifetimes_to_define = Append(@, <<0, "'a">>)]
                 ELSE this
    IN  The({Result(r.this, [id |-> r.ret.node_id,
                             lifetime_name |-> LifetimeName_Name("'a")]) :
                r \in {next_id(this1)}})

\* elided_lifetime
elided_lifetime(this) ==
    The({Result(r.this, [id |-> r.ret.node_id,
                         lifetime_name |-> LifetimeName_Implicit]) :
            r \in {next_id(this)}})

\* with_in_scope_lifetime_defs up to f(self); ret is the local `old_len`
with_in_scope_lifetime_defs_enter(this, lt_def_names) ==
    Result([this EXCEPT !.in_scope_lifetimes = @ \o lt_def_names],
           [old_len |-> Len(this.in_scope_lifetimes)])

\* with_in_scope_lifetime_defs after f(self)
with_in_scope_lifetime_defs_exit(this, old_len) ==
    Result([this EXCEPT !.in_scope_lifetimes = SubSeq(@, 1, old_len)], None)

\* Mutant: the collection starts whatever the flag and the pending list are.
collect_in_band_lifetime_defs_enter_without_asserts(this) ==
    Result([this EXCEPT !.is_collecting_in_band_lifetimes = this.in_band_lifetimes], None)

\* Mutant: the definitions made for names used in-band are left out.
with_parent_impl_lifetime_defs_enter_explicit_only(this, lt_defs) ==
    Result([this EXCEPT !.in_scope_lifetimes =
                            @ \o [i \in 1 .. Len(SelectSeq(lt_defs, LAMBDA d : ~d.in_band)) |->
                                    SelectSeq(lt_defs, LAMBDA d : ~d.in_band)[i].name]],
           [old_len |-> Len(this.in_scope_lifetimes)])

\* with_parent_impl_lifetime_defs up to f(self); lt_defs are lowered
\* definitions; ret is the local `old_len`
with_parent_impl_lifetime_defs_enter(this, lt_defs) ==
    Result([this EXCEPT !.in_scope_lifetimes =
                            @ \o [i \in 1 .. Len(lt_defs) |-> lt_defs[i].name]],
           [old_len |-> Len(this.in_scope_lifetimes)])

\* Mutant: the names of the binder stay visible.
with_parent_impl_lifetime_defs_exit_without_truncate(this, old_len) ==
    Result(this, None)

\* with_parent_impl_lifetime_defs after f(self)
with_parent_impl_lifetime_defs_exit(this, old_len) ==
    Result([this EXCEPT !.in_scope_lifetimes = SubSeq(@, 1, old_len)], None)

\* collect_in_band_lifetime_defs up to f(self)
collect_in_band_lifetime_defs_enter(this) ==
    IF this.is_collecting_in_band_lifetimes \/ this.lifetimes_to_define # <<>>
    THEN Result(Panic(this), None)                          \* assert! x 2
    ELSE Result([this EXCEPT !.is_collecting_in_band_lifetimes = this.in_band_lifetimes],
                None)

RECURSIVE in_band_lifetime_defs(_, _)
\* lifetimes_to_define.into_iter().map(..).collect() where parent_id is Some
in_band_lifetime_defs(this, to_define) ==
    IF to_define = <<>>
    THEN Result(this, <<>>)
    ELSE The({LET def == [id |-> def_node_id.ret.node_id,
                          span |-> Head(to_define)[1],
                          name |-> Head(to_define)[2],
                          lifetime_name |-> LifetimeName_Name(Head(to_define)[2]),
                          bounds |-> <<>>,
                          in_band |-> TRUE]
              IN  The({Result(rest.this, <<def>> \o rest.ret) :
                          rest \in {in_band_lifetime_defs(def_node_id.this, Tail(to_define))}}) :
                 def_node_id \in {next_id(this)}})

\* collect_in_band_lifetime_defs after f(self); parent_id is an Option
collect_in_band_lifetime_defs_exit(this, parent_id) ==
    LET this1 == [this EXCEPT !.is_collecting_in_band_lifetimes = FALSE]
        to_define == this1.lifetimes_to_define
        this2 == [this1 EXCEPT !.lifetimes_to_define = <<>>]   \* split_off(0)
    IN  IF parent_id # None
        THEN in_band_lifetime_defs(this2, to_define)
        ELSE Result(this2, <<>>)
\* Mutant: `'static` is queued like a name.
lower_lifetime_queues_static(this, l) ==
    LET this1 == IF /\ l.name # UnderscoreName
                    /\ this.is_collecting_in_band_lifetimes
                    /\ ~Contains(this.in_scope_lifetimes, l.name)
                    /\ ~\E i \in 1 .. Len(this.lifetimes_to_define) :
                            this.lifetimes_to_define[i][2] = l.name
                 THEN [this EXCEPT !.lifetimes_to_define = Append(@, <<l.id, l.name>>)]
                 ELSE this
    IN  The({Result(r.this, [id |-> r.ret.node_id, name |-> l.name,
                             lifetime_name |-> lower_lifetime_name(l.name)]) :
                r \in {lower_node_id(this1, l.id)}})

\* Mutant: a name that is pending already is queued again.
lower_lifetime_queues_every_use(this, l) ==
    LET this1 == IF /\ l.name \notin {UnderscoreName, StaticName}
                    /\ this.is_collecting_in_band_lifetimes
                    /\ ~Contains(this.in_scope_lifetimes, l.name)
                 THEN [this EXCEPT !.lifetimes_to_define = Append(@, <<l.id, l.name>>)]
                 ELSE this
    IN  The({Result(r.this, [id |-> r.ret.node_id, name |-> l.name,
                             lifetime_name |-> lower_lifetime_name(l.name)]) :
                r \in {lower_node_id(this1, l.id)}})

lower_lifetime(this, l) ==
    LET this1 == IF /\ l.name \notin {UnderscoreName, StaticName}
                    /\ this.is_collecting_in_band_lifetimes
                    /\ ~Contains(this.in_scope_lifetimes, l.name)
                    /\ ~\E i \in 1 .. Len(this.lifetimes_to_define) :
                            this.lifetimes_to_define[i][2] = l.name
                 THEN [this EXCEPT !.lifetimes_to_define = Append(@, <<l.id, l.name>>)]
                 ELSE this
    IN  The({Result(r.this, [id |-> r.ret.node_id, name |-> l.name,
                             lifetime_name |-> lower_lifetime_name(l.name)]) :
                r \in {lower_node_id(this1, l.id)}})

RECURSIVE lower_lifetimes(_, _)
lower_lifetimes(this, lts) ==
    IF lts = <<>>
    THEN Result(this, <<>>)
    ELSE The({The({Result(rest.this, <<l.ret>> \o rest.ret) :
                      rest \in {lower_lifetimes(l.this, Tail(lts))}}) :
                 l \in {lower_lifetime(this, Head(lts))}})

\* lower_lifetime_def; l is (lifetime, bounds)
lower_lifetime_def(this, l) ==
    LET was_collecting_in_band == this.is_collecting_in_band_lifetimes
        this1 == [this EXCEPT !.is_collecting_in_band_lifetimes = FALSE]
    IN  The({The({LET def == [id |-> lifetime.ret.id,
                              span |-> l.lifetime.id,
                              name |-> lifetime.ret.name,
                              lifetime_name |-> lifetime.ret.lifetime_name,
                              bounds |-> bounds.ret,
                              in_band |-> FALSE]
                  IN  Result([bounds.this EXCEPT !.is_collecting_in_band_lifetimes =
                                                     was_collecting_in_band], def) :
                     bounds \in {lower_lifetimes(lifetime.this, l.bounds)}}) :
                lifetime \in {lower_lifetime(this1, l.lifetime)}})

RECURSIVE lower_lifetime_defs(_, _)
lower_lifetime_defs(this, lts) ==
    IF lts = <<>>
    THEN Result(this, <<>>)
    ELSE The({The({Result(rest.this, <<l.ret>> \o rest.ret) :
                      rest \in {lower_lifetime_defs(l.this, Tail(lts))}}) :
                 l \in {lower_lifetime_def(this, Head(lts))}})

\* add_in_band_lifetime_defs up to the closure it runs under the two
\* helpers; ret is old_len
add_in_band_lifetime_defs_enter(this, lt_def_names) ==
    The({The({Result(c.this, s.ret) :
                 c \in {collect_in_band_lifetime_defs_enter(s.this)}}) :
            s \in {with_in_scope_lifetime_defs_enter(this, lt_def_names)}})

\* add_in_band_lifetime_defs after that closure, which returned generics
\* whose lifetimes are `lowered_lifetimes`; ret is the lifetimes of the
\* generics returned
add_in_band_lifetime_defs_exit(this, old_len, parent_id, lowered_lifetimes) ==
    The({The({Result(s.this, lowered_lifetimes \o c.ret) :
                 s \in {with_in_scope_lifetime_defs_exit(c.this, old_len)}}) :
            c \in {collect_in_band_lifetime_defs_exit(this, parent_id)}})

\* ast::Ty: a type left out, a path without arguments, `&'region ty`,
\* `for<lifetimes> fn(inputs)`
Ty_Infer(id) == [kind |-> "Infer", id |-> id]
Ty_Path(id) == [kind |-> "Path", id |-> id]
Ty_Rptr(id, region, ty) == [kind |-> "Rptr", id |-> id, region |-> region, ty |-> ty]
Ty_BareFn(id, lifetimes, inputs) ==
    [kind |-> "BareFn", id |-> id, lifetimes |-> lifetimes,
     decl |-> [inputs |-> inputs, output |-> None]]
\* `impl bounds`, and `for<lifetimes> fn(inputs) -> output`
Ty_ImplTrait(id, bounds) == [kind |-> "ImplTrait", id |-> id, bounds |-> bounds]
Ty_BareFnRet(id, lifetimes, inputs, output) ==
    [kind |-> "BareFn", id |-> id, lifetimes |-> lifetimes,
     decl |-> [inputs |-> inputs, output |-> Some(output)]]

\* enum ImplTraitContext
ImplTraitContext_Universal(def_id) == <<"Universal", def_id>>
ImplTraitContext_Existential == <<"Existential">>
ImplTraitContext_Disallowed == <<"Disallowed">>

\* emit_feature_err of lower_ty: the gate of a feature that is off
gate_feature(this, feature, id) ==
    IF feature \in this.features
    THEN this
    ELSE [this EXCEPT !.diagnostics = Append(@, [code |-> "E0658", feature |-> feature,
                                                 id |-> id])]

\* span_err!(self.sess, t.span, E0562, ..)
span_err_E0562(this, id) ==
    [this EXCEPT !.diagnostics = Append(@, [code |-> "E0562", feature |-> "", id |-> id])]

\* The names a list of lifetime definitions declares.
Names(lt_defs) == [i \in 1 .. Len(lt_defs) |-> lt_defs[i].lifetime.name]

RECURSIVE lower_ty(_, _, _)
RECURSIVE lower_fn_decl(_, _, _, _)
RECURSIVE lower_bounds(_, _, _)
RECURSIVE lifetimes_from_impl_trait_bounds(_, _)
RECURSIVE lower_ty_impl_trait_existential_exit(_, _, _, _, _)
\* lower_ty; the region of a reference is an Option
lower_ty(this, t, itctx) ==
    IF t.kind = "Rptr"
    THEN The({The({The({Result(r.this, [id |-> r.ret.node_id, node |-> "TyRptr",
                                        lifetime |-> lifetime.ret, ty |-> mt.ret]) :
                           r \in {lower_node_id(mt.this, t.id)}}) :
                      mt \in {lower_ty(lifetime.this, t.ty, itctx)}}) :
                 lifetime \in {IF t.region = None
                                THEN elided_lifetime(this)
                                ELSE lower_lifetime(this, Unwrap(t.region))}})
    ELSE IF t.kind = "BareFn"
    THEN The({The({The({The({The({Result(r.this, [id |-> r.ret.node_id,
                                                  node |-> "TyBareFn",
                                                  lifetimes |-> lifetimes.ret,
                                                  decl |-> decl.ret]) :
                                     r \in {lower_node_id(x.this, t.id)}}) :
                                x \in {with_in_scope_lifetime_defs_exit(decl.this, s.ret.old_len)}}) :
                           decl \in {lower_fn_decl(lifetimes.this, t.decl, None, FALSE)}}) :
                      lifetimes \in {lower_lifetime_defs(s.this, t.lifetimes)}}) :
                 s \in {with_in_scope_lifetime_defs_enter(this, Names(t.lifetimes))}})
    ELSE IF t.kind = "ImplTrait" /\ itctx = ImplTraitContext_Existential
    THEN The({The({lower_ty_impl_trait_existential_exit(collected.this, t.id, hir_bounds.ret,
                                                        collected.ret[1], collected.ret[2]) :
                      collected \in {lifetimes_from_impl_trait_bounds(hir_bounds.this,
                                                                      hir_bounds.ret)}}) :
                 hir_bounds \in {lower_bounds(gate_feature(this, "conservative_impl_trait",
                                                           t.id),
                                              t.bounds, itctx)}})
    ELSE IF t.kind = "ImplTrait" /\ itctx[1] = "Universal"
    THEN The({The({Result(r.this, [id |-> r.ret.node_id, node |-> "TyImplTraitUniversal",
                                   def_id |-> itctx[2], bounds |-> hir_bounds.ret]) :
                      r \in {lower_node_id(hir_bounds.this, t.id)}}) :
                 hir_bounds \in {lower_bounds(gate_feature(this, "universal_impl_trait", t.id),
                                              t.bounds, itctx)}})
    ELSE IF t.kind = "ImplTrait"
    THEN The({Result(r.this, [id |-> r.ret.node_id, node |-> "TyErr"]) :
                 r \in {lower_node_id(span_err_E0562(this, t.id), t.id)}})
    ELSE The({Result(r.this, [id |-> r.ret.node_id,
                              node |-> IF t.kind = "Infer" THEN "TyInfer" ELSE "TyPath"]) :
                 r \in {lower_node_id(this, t.id)}})

RECURSIVE lower_fn_decl_inputs_disallowed(_, _, _)
\* Mutant: `impl Trait` is rejected in the arguments of every function.
lower_fn_decl_inputs_disallowed(this, inputs, fn_def_id) ==
    IF inputs = <<>>
    THEN Result(this, <<>>)
    ELSE The({The({Result(rest.this, <<ty.ret>> \o rest.ret) :
                      rest \in {lower_fn_decl_inputs_disallowed(ty.this, Tail(inputs),
                                                                fn_def_id)}}) :
                 ty \in {lower_ty(this, Head(inputs).ty, ImplTraitContext_Disallowed)}})

RECURSIVE lower_fn_decl_inputs(_, _, _)
\* lower_fn_decl: decl.inputs.iter().map(|arg| ..).collect(); an argument
\* is (id, pat, ty)
lower_fn_decl_inputs(this, inputs, fn_def_id) ==
    IF inputs = <<>>
    THEN Result(this, <<>>)
    ELSE The({The({Result(rest.this, <<ty.ret>> \o rest.ret) :
                      rest \in {lower_fn_decl_inputs(ty.this, Tail(inputs), fn_def_id)}}) :
                 ty \in {lower_ty(this, Head(inputs).ty,
                                  IF fn_def_id # None
                                  THEN ImplTraitContext_Universal(Unwrap(fn_def_id))
                                  ELSE ImplTraitContext_Disallowed)}})

\* lower_fn_decl; decl is (inputs, output), with output None for
\* FunctionRetTy::Default; ret is (inputs, output), with output None for
\* hir::DefaultReturn
lower_fn_decl(this, decl, fn_def_id, impl_trait_return_allow) ==
    The({IF decl.output = None
         THEN Result(inputs.this, [inputs |-> inputs.ret, output |-> None])
         ELSE The({Result(output.this, [inputs |-> inputs.ret, output |-> Some(output.ret)]) :
                      output \in {lower_ty(inputs.this, Unwrap(decl.output),
                                           IF fn_def_id # None /\ impl_trait_return_allow
                                           THEN ImplTraitContext_Existential
                                           ELSE ImplTraitContext_Disallowed)}}) :
            inputs \in {lower_fn_decl_inputs(this, decl.inputs, fn_def_id)}})

\* ast::TyParamBound: `'lifetime`, or `for<bound_lifetimes> Tr<..>` with a
\* trait of one resolved segment; parameters are those of PathParameters
RegionTyParamBound(lifetime) == [kind |-> "Region", lifetime |-> lifetime]
PolyTraitRef(bound_lifetimes, ref_id, parameters) ==
    [kind |-> "Trait", bound_lifetimes |-> bound_lifetimes,
     trait_ref |-> [ref_id |-> ref_id, parameters |-> parameters]]
\* `<lifetimes, types>` on a trait that declares expected_lifetimes
\* lifetime parameters, and `(inputs)` without return type
AngleBracketed(lifetimes, types, expected_lifetimes) ==
    [parenthesized |-> FALSE, lifetimes |-> lifetimes, types |-> types,
     expected_lifetimes |-> expected_lifetimes]
Parenthesized(inputs) ==
    [parenthesized |-> TRUE, lifetimes |-> <<>>, types |-> inputs, expected_lifetimes |-> 0]
TraitTyParamBound(bound_lifetimes, ref_id, lifetimes) ==
    PolyTraitRef(bound_lifetimes, ref_id, AngleBracketed(lifetimes, <<>>, 0))

RECURSIVE lower_tys(_, _, _)
\* tys.iter().map(|ty| self.lower_ty(ty, itctx)).collect()
lower_tys(this, tys, itctx) ==
    IF tys = <<>>
    THEN Result(this, <<>>)
    ELSE The({The({Result(rest.this, <<ty.ret>> \o rest.ret) :
                      rest \in {lower_tys(ty.this, Tail(tys), itctx)}}) :
                 ty \in {lower_ty(this, Head(tys), itctx)}})

RECURSIVE elided_lifetimes(_, _)
\* (0..expected_lifetimes).map(|_| self.elided_lifetime(path_span)).collect()
elided_lifetimes(this, count) ==
    IF count = 0
    THEN Result(this, <<>>)
    ELSE The({The({Result(rest.this, <<l.ret>> \o rest.ret) :
                      rest \in {elided_lifetimes(l.this, count - 1)}}) :
                 l \in {elided_lifetime(this)}})

\* lower_angle_bracketed_parameter_data, without bindings
lower_angle_bracketed_parameter_data(this, data, itctx) ==
    The({The({Result(types.this, [lifetimes |-> lifetimes.ret, types |-> types.ret,
                                  bindings |-> <<>>, parenthesized |-> FALSE]) :
                 types \in {lower_tys(lifetimes.this, data.types, itctx)}}) :
            lifetimes \in {lower_lifetimes(this, data.lifetimes)}})

\* mk_tup of lower_parenthesized_parameter_data
mk_tup(this, tys) ==
    The({Result(r.this, [id |-> r.ret.node_id, node |-> "TyTup", tys |-> tys]) :
            r \in {next_id(this)}})

\* lower_parenthesized_parameter_data of inputs without return type
lower_parenthesized_parameter_data(this, data) ==
    The({The({The({The({Result(output.this,
                               [lifetimes |-> <<>>, types |-> <<tup.ret>>,
                                bindings |-> <<[id |-> id.ret.node_id, ty |-> output.ret]>>,
                                parenthesized |-> TRUE]) :
                           output \in {mk_tup(id.this, <<>>)}}) :
                      id \in {next_id(tup.this)}}) :
                 tup \in {mk_tup(inputs.this, inputs.ret)}}) :
            inputs \in {lower_tys(this, data.types, ImplTraitContext_Disallowed)}})

\* lower_path_segment of the segment of a trait (ParenthesizedGenericArgs::Ok)
lower_path_segment(this, parameters, itctx) ==
    The({IF ~lowered.ret.parenthesized /\ lowered.ret.lifetimes = <<>>
         THEN The({Result(l.this, [lowered.ret EXCEPT !.lifetimes = l.ret]) :
                      l \in {elided_lifetimes(lowered.this, parameters.expected_lifetimes)}})
         ELSE lowered :
            lowered \in {IF parameters.parenthesized
                          THEN lower_parenthesized_parameter_data(this, parameters)
                          ELSE lower_angle_bracketed_parameter_data(this, parameters,
                                                                    itctx)}})

\* lower_trait_ref: lower_qpath of a path of one segment, resolved
lower_trait_ref(this, p, itctx) ==
    The({The({Result(r.this, [ref_id |-> r.ret.node_id, parameters |-> path.ret,
                              lifetimes |-> path.ret.lifetimes]) :
                 r \in {lower_node_id(path.this, p.ref_id)}}) :
            path \in {lower_path_segment(this, p.parameters, itctx)}})

\* lower_poly_trait_ref
lower_poly_trait_ref(this, p, itctx) ==
    The({The({The({The({Result(x.this, [bound_lifetimes |-> bound_lifetimes.ret,
                                        trait_ref |-> trait_ref.ret]) :
                           x \in {with_parent_impl_lifetime_defs_exit(trait_ref.this,
                                                                     s.ret.old_len)}}) :
                      trait_ref \in {lower_trait_ref(s.this, p.trait_ref, itctx)}}) :
                 s \in {with_parent_impl_lifetime_defs_enter(bound_lifetimes.this,
                                                             bound_lifetimes.ret)}}) :
            bound_lifetimes \in {lower_lifetime_defs(this, p.bound_lifetimes)}})

\* lower_ty_param_bound
lower_ty_param_bound(this, tpb, itctx) ==
    IF tpb.kind = "Trait"
    THEN The({Result(r.this, [kind |-> "Trait", poly_trait_ref |-> r.ret]) :
                 r \in {lower_poly_trait_ref(this, tpb, itctx)}})
    ELSE The({Result(r.this, [kind |-> "Region", lifetime |-> r.ret]) :
                 r \in {lower_lifetime(this, tpb.lifetime)}})

\* lower_bounds
lower_bounds(this, bounds, itctx) ==
    IF bounds = <<>>
    THEN Result(this, <<>>)
    ELSE The({The({Result(rest.this, <<b.ret>> \o rest.ret) :
                      rest \in {lower_bounds(b.this, Tail(bounds), itctx)}}) :
                 b \in {lower_ty_param_bound(this, Head(bounds), itctx)}})

\* lower_ty_param of a parameter without default; tp is (id, bounds)
lower_ty_param(this, tp) ==
    The({The({Result(r.this, [id |-> r.ret.node_id, bounds |-> bounds.ret]) :
                 r \in {lower_node_id(bounds.this, tp.id)}}) :
            bounds \in {lower_bounds(this, tp.bounds, ImplTraitContext_Universal(tp.id))}})

\* lower_where_predicate of a WherePredicate::BoundPredicate; pred is
\* (bound_lifetimes, bounded_ty, bounds)
lower_where_predicate(this, pred) ==
    The({The({The({The({The({Result(x.this, [bound_lifetimes |-> bound_lifetimes.ret,
                                             bounded_ty |-> bounded_ty.ret,
                                             bounds |-> bounds.ret]) :
                                x \in {with_in_scope_lifetime_defs_exit(bounds.this,
                                                                       s.ret.old_len)}}) :
                           bounds \in {lower_bounds(bounded_ty.this, pred.bounds,
                                                    ImplTraitContext_Disallowed)}}) :
                      bounded_ty \in {lower_ty(bound_lifetimes.this, pred.bounded_ty,
                                               ImplTraitContext_Disallowed)}}) :
                 bound_lifetimes \in {lower_lifetime_defs(s.this, pred.bound_lifetimes)}}) :
            s \in {with_in_scope_lifetime_defs_enter(this, Names(pred.bound_lifetimes))}})

(***************************************************************************)
(* The lifetimes of the bounds of `impl Trait` in return position.         *)
(***************************************************************************)
\* ImplTraitLifetimeCollector { .. } of lifetimes_from_impl_trait_bounds
ImplTraitLifetimeCollector(this) ==
    [context |-> this,
     collect_elided_lifetimes |-> TRUE,
     currently_bound_lifetimes |-> <<>>,
     already_defined_lifetimes |-> {},
     output_lifetimes |-> <<>>,
     output_lifetime_defs |-> <<>>]

\* Mutant: a `'_` or a lifetime left out is captured wherever it stands.
visit_lifetime_elided_everywhere(self, lifetime) ==
    IF lifetime.lifetime_name = LifetimeName_Static
    THEN self
    ELSE The({IF /\ ~Contains(self.currently_bound_lifetimes, name)
                 /\ name \notin self.already_defined_lifetimes
              THEN The({The({[self EXCEPT
                                 !.context = def_node_id.this,
                                 !.already_defined_lifetimes = @ \cup {name},
                                 !.output_lifetimes =
                                     Append(@, [id |-> id.ret.node_id, span |-> lifetime.id,
                                                lifetime_name |-> name]),
                                 !.output_lifetime_defs =
                                     Append(@, [id |-> def_node_id.ret.node_id,
                                                span |-> lifetime.id,
                                                lifetime_name |-> name,
                                                bounds |-> <<>>,
                                                in_band |-> FALSE])] :
                               def_node_id \in {next_id(id.this)}}) :
                          id \in {next_id(self.context)}})
              ELSE self :
                 name \in {IF lifetime.lifetime_name = LifetimeName_Implicit
                           THEN LifetimeName_Underscore
                           ELSE lifetime.lifetime_name}})

\* ImplTraitLifetimeCollector::visit_lifetime
visit_lifetime(self, lifetime) ==
    IF \/ lifetime.lifetime_name = LifetimeName_Static
       \/ /\ lifetime.lifetime_name \in {LifetimeName_Implicit, LifetimeName_Underscore}
          /\ ~self.collect_elided_lifetimes
    THEN self
    ELSE The({IF /\ ~Contains(self.currently_bound_lifetimes, name)
                 /\ name \notin self.already_defined_lifetimes
              THEN The({The({[self EXCEPT
                                 !.context = def_node_id.this,
                                 !.already_defined_lifetimes = @ \cup {name},
                                 !.output_lifetimes =
                                     Append(@, [id |-> id.ret.node_id, span |-> lifetime.id,
                                                lifetime_name |-> name]),
                                 !.output_lifetime_defs =
                                     Append(@, [id |-> def_node_id.ret.node_id,
                                                span |-> lifetime.id,
                                                lifetime_name |-> name,
                                                bounds |-> <<>>,
                                                in_band |-> FALSE])] :
                               def_node_id \in {next_id(id.this)}}) :
                          id \in {next_id(self.context)}})
              ELSE self :
                 name \in {IF lifetime.lifetime_name = LifetimeName_Implicit
                           THEN LifetimeName_Underscore
                           ELSE lifetime.lifetime_name}})

RECURSIVE visit_lifetimes(_, _)
\* walk_list!(visitor, visit_lifetime, ..)
visit_lifetimes(self, lifetimes) ==
    IF lifetimes = <<>>
    THEN self
    ELSE The({visit_lifetimes(s, Tail(lifetimes)) :
                 s \in {visit_lifetime(self, Head(lifetimes))}})

RECURSIVE visit_ty(_, _)
RECURSIVE visit_tys(_, _)
RECURSIVE walk_ty(_, _)
\* intravisit::walk_ty: the regions and the types a type refers to
walk_ty(self, t) ==
    IF t.node = "TyRptr"
    THEN The({visit_ty(s, t.ty) : s \in {visit_lifetime(self, t.lifetime)}})
    ELSE IF t.node = "TyBareFn"
    THEN visit_tys(self, t.decl.inputs \o t.decl.output)
    ELSE IF t.node = "TyTup"
    THEN visit_tys(self, t.tys)
    ELSE self

\* ImplTraitLifetimeCollector::visit_ty
visit_ty(self, t) ==
    IF t.node = "TyBareFn"
    THEN The({[s EXCEPT !.collect_elided_lifetimes = self.collect_elided_lifetimes] :
                 s \in {walk_ty([self EXCEPT !.collect_elided_lifetimes = FALSE], t)}})
    ELSE walk_ty(self, t)

\* walk_list!(visitor, visit_ty, ..)
visit_tys(self, tys) ==
    IF tys = <<>>
    THEN self
    ELSE The({visit_tys(s, Tail(tys)) : s \in {visit_ty(self, Head(tys))}})

\* intravisit::walk_path_parameters: lifetimes, types, bindings
walk_path_parameters(self, parameters) ==
    The({The({visit_tys(types, [i \in 1 .. Len(parameters.bindings) |->
                                   parameters.bindings[i].ty]) :
                 types \in {visit_tys(lifetimes, parameters.types)}}) :
            lifetimes \in {visit_lifetimes(self, parameters.lifetimes)}})

\* ImplTraitLifetimeCollector::visit_path_parameters
visit_path_parameters(self, parameters) ==
    IF parameters.parenthesized
    THEN The({[s EXCEPT !.collect_elided_lifetimes = self.collect_elided_lifetimes] :
                 s \in {walk_path_parameters([self EXCEPT !.collect_elided_lifetimes = FALSE],
                                             parameters)}})
    ELSE walk_path_parameters(self, parameters)

\* intravisit::walk_trait_ref: the parameters of the segment of the path
walk_trait_ref(self, trait_ref) == visit_path_parameters(self, trait_ref.parameters)

RECURSIVE bind_lifetimes(_, _)
\* visit_poly_trait_ref: `for lt_def in &polytr.bound_lifetimes { .. }`
bind_lifetimes(self, lt_defs) ==
    IF lt_defs = <<>>
    THEN self
    ELSE The({The({bind_lifetimes(bounds, Tail(lt_defs)) :
                      bounds \in {visit_lifetimes(pushed, Head(lt_defs).bounds)}}) :
                 pushed \in {[self EXCEPT !.currently_bound_lifetimes =
                                              Append(@, Head(lt_defs).lifetime_name)]}})

\* ImplTraitLifetimeCollector::visit_poly_trait_ref
visit_poly_trait_ref(self, polytr) ==
    The({The({[walked EXCEPT !.currently_bound_lifetimes =
                                 SubSeq(@, 1, Len(self.currently_bound_lifetimes))] :
                 walked \in {walk_trait_ref(bound, polytr.trait_ref)}}) :
            bound \in {bind_lifetimes(self, polytr.bound_lifetimes)}})

\* intravisit::walk_ty_param_bound
walk_ty_param_bound(self, bound) ==
    IF bound.kind = "Trait"
    THEN visit_poly_trait_ref(self, bound.poly_trait_ref)
    ELSE visit_lifetime(self, bound.lifetime)

RECURSIVE collect_bounds(_, _)
\* lifetimes_from_impl_trait_bounds: `for bound in bounds { .. }`
collect_bounds(self, bounds) ==
    IF bounds = <<>>
    THEN self
    ELSE The({collect_bounds(s, Tail(bounds)) :
                 s \in {walk_ty_param_bound(self, Head(bounds))}})

\* lifetimes_from_impl_trait_bounds; ret is (lifetimes, lifetime_defs)
lifetimes_from_impl_trait_bounds(this, bounds) ==
    The({Result(collector.context,
                <<collector.output_lifetimes, collector.output_lifetime_defs>>) :
            collector \in {collect_bounds(ImplTraitLifetimeCollector(this), bounds)}})

\* lower_ty of TyKind::ImplTrait under ImplTraitContext::Existential, from
\* the lifetimes collected on: the where clause of the generics, then the
\* node of the type
lower_ty_impl_trait_existential_exit(this, t, hir_bounds, lifetimes, lifetime_defs) ==
    The({The({Result(r.this, [id |-> r.ret.node_id, node |-> "TyImplTraitExistential",
                              generics |-> [lifetimes |-> lifetime_defs,
                                            where_clause |-> where_clause.ret.node_id],
                              bounds |-> hir_bounds,
                              lifetimes |-> lifetimes]) :
                 r \in {lower_node_id(where_clause.this, t)}}) :
            where_clause \in {next_id(this)}})

(***************************************************************************)
(* Items with associated items: impls, traits and their methods.           *)
(***************************************************************************)
\* ItemLowerer::with_trait_impl_ref up to f(self); ret is the local `old`
with_trait_impl_ref_enter(this, trait_impl_ref) ==
    Result([this EXCEPT !.is_in_trait_impl = trait_impl_ref # None],
           [old |-> this.is_in_trait_impl])

\* Mutant: the flag is cleared instead of restored.
with_trait_impl_ref_exit_clears(this, old) ==
    Result([this EXCEPT !.is_in_trait_impl = FALSE], None)

\* ItemLowerer::with_trait_impl_ref after f(self)
with_trait_impl_ref_exit(this, old) ==
    Result([this EXCEPT !.is_in_trait_impl = old], None)

\* lower_generics of generics without type parameters and predicates; g is
\* (lifetimes, where_clause), the latter the id of the clause
lower_generics(this, g) ==
    The({The({Result(wc.this, [lifetimes |-> lifetimes.ret,
                               where_clause |-> wc.ret.node_id]) :
                 wc \in {lower_node_id(lifetimes.this, g.where_clause)}}) :
            lifetimes \in {lower_lifetime_defs(this, g.lifetimes)}})

\* lower_stmt of StmtKind::Item for an item that is no import and no macro
\* definition: lower_item_id yields the id of the item
lower_stmt_item(this, s) ==
    The({Result(r.this, [node |-> "StmtDecl", id |-> r.ret.node_id, decl_item |-> s.item]) :
            r \in {lower_node_id(this, s.id)}})

RECURSIVE lower_stmts(_, _)
\* lower_block: `for (index, stmt) in b.stmts.iter().enumerate() { .. }`
\* over statements that are items
lower_stmts(this, stmts) ==
    IF stmts = <<>>
    THEN Result(this, <<>>)
    ELSE The({The({Result(rest.this, <<s.ret>> \o rest.ret) :
                      rest \in {lower_stmts(s.this, Tail(stmts))}}) :
                 s \in {lower_stmt_item(this, Head(stmts))}})

\* lower_expr of ExprKind::Closure whose body is a literal; c is (id, decl,
\* body); ret is the declaration lowered
lower_expr_closure(this, c) ==
    The({The({The({The({The({The({IF value.this.is_generator /\ c.decl.inputs # <<>>
                                  THEN Result(Panic(bx.this), None)    \* abort_if_errors()
                                  ELSE The({Result(r.this, [id |-> r.ret.node_id,
                                                            node |-> "ExprClosure",
                                                            decl |-> decl.ret,
                                                            body_id |-> bx.ret]) :
                                               r \in {lower_node_id(sx.this, c.id)}}) :
                                     sx \in {with_new_scopes_exit(decl.this,
                                                                  s.ret.was_in_loop_condition,
                                                                  s.ret.catch_scopes,
                                                                  s.ret.loop_scopes)}}) :
                                decl \in {lower_fn_decl(bx.this, c.decl, None, FALSE)}}) :
                           bx \in {lower_body_exit(value.this, b.ret.prev, value.ret.id,
                                                   c.decl.inputs)}}) :
                      value \in {lower_expr_lit(b.this, c.body)}}) :
                 b \in {lower_body_enter(s.this)}}) :
            s \in {with_new_scopes_enter(this)}})

\* lower_body(Some(decl), |this| { let body = this.lower_block(body, false);
\* this.expr_block(body, ..) }) for a block of item statements with, at
\* most, a closure for trailing expression; body is (id, stmts, expr); ret
\* is the id of the body and the trailing expression lowered
lower_fn_body(this, decl, body) ==
    The({The({The({The({The({The({Result(bx.this, [body_id |-> bx.ret, expr |-> trailing.ret]) :
                                     bx \in {lower_body_exit(value.this, b.ret.prev, value.ret,
                                                             decl.inputs)}}) :
                                value \in {expr(blk.this)}}) :
                           blk \in {lower_block(trailing.this, body.id, FALSE)}}) :
                      trailing \in {IF body.expr = None
                                     THEN Result(stmts.this, None)
                                     ELSE The({Result(c.this, Some(c.ret)) :
                                                  c \in {lower_expr_closure(
                                                             stmts.this,
                                                             Unwrap(body.expr))}})}}) :
                 stmts \in {lower_stmts(b.this, body.stmts)}}) :
            b \in {lower_body_enter(this)}})

\* add_in_band_lifetime_defs(generics, fn_def_id, |this|
\* this.lower_fn_decl(decl, fn_def_id, impl_trait_return_allow)); ret is
\* the generics with the in-band definitions, and the declaration
lower_signature(this, generics, decl, fn_def_id, impl_trait_return_allow) ==
    The({The({The({The({Result(gx.this,
                               [generics |-> [g.ret EXCEPT !.lifetimes = gx.ret],
                                decl |-> d.ret]) :
                           gx \in {add_in_band_lifetime_defs_exit(d.this, ge.ret.old_len,
                                                                  fn_def_id, g.ret.lifetimes)}}) :
                      d \in {lower_fn_decl(g.this, decl, fn_def_id, impl_trait_return_allow)}}) :
                 g \in {lower_generics(ge.this, generics)}}) :
            ge \in {add_in_band_lifetime_defs_enter(this, Names(generics.lifetimes))}})

\* lower_item_kind of ItemKind::Fn, and lower_item's lower_node_id; i is
\* (id, generics, decl, body)
lower_item_fn(this, i) ==
    The({The({The({The({The({Result(n.this, [id |-> n.ret.node_id, node |-> "ItemFn",
                                             decl |-> sig.ret.decl,
                                             generics |-> sig.ret.generics,
                                             body_id |-> body.ret.body_id,
                                             expr |-> body.ret.expr]) :
                                n \in {lower_node_id(sx.this, i.id)}}) :
                           sx \in {with_new_scopes_exit(sig.this, s.ret.was_in_loop_condition,
                                                        s.ret.catch_scopes, s.ret.loop_scopes)}}) :
                      sig \in {lower_signature(body.this, i.generics, i.decl, Some(i.id), TRUE)}}) :
                 body \in {lower_fn_body(s.this, i.decl, i.body)}}) :
            s \in {with_new_scopes_enter(this)}})

\* lower_item_kind of ItemKind::Impl, and lower_item's lower_node_id; i is
\* (id, generics, ifce, ty, impl_items), ifce an Option
lower_item_impl(this, i) ==
    The({The({The({The({The({The({The({The({
        Result(n.this, [id |-> n.ret.node_id, node |-> "ItemImpl",
                        generics |-> [g.ret EXCEPT !.lifetimes = gx.ret],
                        ifce |-> ifce.ret, ty |-> lowered_ty.ret,
                        impl_items |-> i.impl_items]) :
                                               n \in {lower_node_id(rx.this, i.id)}}) :
                                          rx \in {with_in_scope_lifetime_defs_exit(
                                                      re.this, re.ret.old_len)}}) :
                                     re \in {with_in_scope_lifetime_defs_enter(
                                                 gx.this, Names(i.generics.lifetimes))}}) :
                                gx \in {add_in_band_lifetime_defs_exit(
                                            lowered_ty.this, ge.ret.old_len, Some(i.id),
                                            g.ret.lifetimes)}}) :
                           lowered_ty \in {lower_ty(ifce.this, i.ty,
                                                    ImplTraitContext_Disallowed)}}) :
                      ifce \in {IF i.ifce = None
                                 THEN Result(g.this, None)
                                 ELSE The({Result(t.this, Some(t.ret)) :
                                              t \in {lower_trait_ref(
                                                         g.this, Unwrap(i.ifce),
                                                         ImplTraitContext_Disallowed)}})}}) :
                 g \in {lower_generics(ge.this, i.generics)}}) :
            ge \in {add_in_band_lifetime_defs_enter(this, Names(i.generics.lifetimes))}})

\* lower_item_kind of ItemKind::Trait without supertraits, and lower_item's
\* lower_node_id; i is (id, generics, items)
lower_item_trait(this, i) ==
    The({The({The({Result(n.this, [id |-> n.ret.node_id, node |-> "ItemTrait",
                                   generics |-> g.ret, bounds |-> bounds.ret,
                                   items |-> i.items]) :
                      n \in {lower_node_id(g.this, i.id)}}) :
                 g \in {lower_generics(bounds.this, i.generics)}}) :
            bounds \in {lower_bounds(this, <<>>, ImplTraitContext_Disallowed)}})

\* lower_impl_item of ImplItemKind::Method; i is (id, generics, decl, body)
lower_impl_item(this, i) ==
    The({The({The({Result(sig.this, [id |-> n.ret.node_id, node |-> "ImplItemKind::Method",
                                     generics |-> sig.ret.generics,
                                     decl |-> sig.ret.decl,
                                     body_id |-> body.ret.body_id]) :
                      sig \in {lower_signature(body.this, i.generics, i.decl, Some(i.id),
                                               ~body.this.is_in_trait_impl)}}) :
                 body \in {lower_fn_body(n.this, i.decl, i.body)}}) :
            n \in {lower_node_id(this, i.id)}})

\* lower_trait_item of TraitItemKind::Method without body; i is (id,
\* generics, decl)
lower_trait_item(this, i) ==
    The({The({Result(sig.this, [id |-> n.ret.node_id, node |-> "TraitItemKind::Method",
                                generics |-> sig.ret.generics,
                                decl |-> sig.ret.decl]) :
                 sig \in {lower_signature(n.this, i.generics, i.decl, Some(i.id), FALSE)}}) :
            n \in {lower_node_id(this, i.id)}})

(***************************************************************************)
(* The call stack.                                                         *)
(***************************************************************************)
\* A frame holds the locals of one running helper.  Fields a helper does
\* not have keep the values of BlankFrame.  `at_entry` is not a local of
\* the code: it is the context as the call found it.
BlankFrame ==
    [kind |-> "none", owner |-> 0, counter |-> 0, def_index |-> CRATE_DEF_INDEX,
     id |-> 0, block |-> 0, len |-> 0, old_len |-> 0,
     was_in_loop_condition |-> FALSE, catch_scopes |-> <<>>, loop_scopes |-> <<>>,
     prev |-> FALSE, inputs |-> <<>>, lifetimes |-> <<>>,
     source |-> "none", expr |-> 0, lowered |-> <<>>,
     children |-> 0, child |-> 0, collector |-> None, at_entry |-> None]

\* The step just taken.
Step(op, id, owner, ret, frame) ==
    [op |-> op, id |-> id, owner |-> owner, ret |-> ret, frame |-> frame]

Running == ~panicked

\* The owners whose with_hir_id_owner call is running.
OnOwnerStack(stack) == {o \in OwnerIds \cup {CRATE_NODE_ID} :
                            \E i \in 1 .. Len(stack) : stack[i][1] = opt_def_index(o)}

\* Where the walk over the input stands: the step of lower_crate, the next
\* item, the next node not yet met, the lifetimes met in the signature,
\* the functions, closures and repeat expressions of the input whose body
\* holds a `yield` outside any closure or repeat count nested in it, and the
\* shape of the crate where the walk fixed it before the items are lowered.
Walk(phase, item, node) ==
    [phase |-> phase, item |-> item, node |-> node, uses |-> <<>>, yields |-> {},
     crate |-> None]

\* conservative_impl_trait and universal_impl_trait of Session::features
ImplTraitFeatures == {"conservative_impl_trait", "universal_impl_trait"}

\* lower_crate's LoweringContext { .. }, for an input of num_ast_ids nodes
\* and a session with the in_band_lifetimes feature on or off and with the
\* features `gates` of `impl Trait` on.
InitSession(num_ast_ids, feature, gates, first_node) ==
    /\ node_id_to_hir_id = <<>>
    /\ item_local_id_counters = <<>>
    /\ current_hir_id_owner = <<<<CRATE_DEF_INDEX, 0>>>>
    /\ catch_scopes = <<>>
    /\ loop_scopes = <<>>
    /\ is_in_loop_condition = FALSE
    /\ is_generator = FALSE
    /\ bodies = <<>>
    /\ lifetimes_to_define = <<>>
    /\ is_collecting_in_band_lifetimes = FALSE
    /\ in_scope_lifetimes = <<>>
    /\ next_node_id = num_ast_ids
    /\ in_band_lifetimes = feature
    /\ is_in_trait_impl = FALSE
    /\ items = <<>>
    /\ trait_items = <<>>
    /\ impl_items = <<>>
    /\ features = gates
    /\ diagnostics = <<>>
    /\ frames = <<>>
    /\ walk = Walk("new", 1, first_node)
    /\ panicked = FALSE
    /\ done = Step("new", 0, 0, None, BlankFrame)

\* The same for a session with both features of `impl Trait` on.
InitWith(num_ast_ids, feature, first_node) ==
    InitSession(num_ast_ids, feature, ImplTraitFeatures, first_node)

Init == InitWith(NumAstIds, FALSE, 1 + NumOwnerIds)

(***************************************************************************)
(* Spec: the identity allocator under the calls the pass makes of it.      *)
(*                                                                         *)
(* What the callers guarantee, and the actions therefore assume:           *)
(*  - an item's id is registered (MiscCollector, lower_use_tree) before    *)
(*    it is lowered, and the crate root is never registered;               *)
(*  - with_hir_id_owner is not entered for an owner whose subtree is being *)
(*    lowered (an item is not nested in itself);                           *)
(*  - an id lowered exists: the parser's or one next_node_id returned.     *)
(***************************************************************************)
ExistingIds == 0 .. (next_node_id - 1)

MayLower(id) ==
    \/ id = DUMMY_NODE_ID
    \/ /\ id \in ExistingIds
       /\ id \in OwnerIds => id \in DOMAIN item_local_id_counters

LowerNodeId(id) ==
    /\ Running
    /\ MayLower(id)
    /\ LET r == lower_node_id(This, id)
       IN  /\ Set(r.this)
           /\ done' = Step("lower_node_id", id, 0, r.ret, BlankFrame)
    /\ UNCHANGED <<frames, walk>>

LowerNodeIdWithOwner(id, owner) ==
    /\ Running
    /\ MayLower(id)
    /\ LET r == lower_node_id_with_owner(This, id, owner)
       IN  /\ Set(r.this)
           /\ done' = Step("lower_node_id_with_owner", id, owner, r.ret, BlankFrame)
    /\ UNCHANGED <<frames, walk>>

AllocateHirIdCounter(owner) ==
    /\ Running
    /\ owner \in Mapped(node_id_to_hir_id) => owner \in DOMAIN item_local_id_counters
    /\ LET r == allocate_hir_id_counter(This, owner)
       IN  /\ Set(r.this)
           /\ done' = Step("allocate_hir_id_counter", owner, owner, None, BlankFrame)
    /\ UNCHANGED <<frames, walk>>

NextId ==
    /\ Running
    /\ next_node_id < NumAstIds + MaxFreshIds
    /\ LET r == next_id(This)
       IN  /\ Set(r.this)
           /\ done' = Step("next_id", next_node_id, 0, r.ret, BlankFrame)
    /\ UNCHANGED <<frames, walk>>

WithHirIdOwnerEnter(owner) ==
    /\ Running
    /\ owner \notin OnOwnerStack(current_hir_id_owner)
    /\ LET r == with_hir_id_owner_enter(This, owner)
       IN  /\ Set(r.this)
           /\ frames' = IF r.this.panicked THEN frames
                        ELSE Append(frames,
                                [BlankFrame EXCEPT !.kind = "with_hir_id_owner",
                                                   !.owner = r.ret.owner,
                                                   !.counter = r.ret.counter,
                                                   !.def_index = r.ret.def_index,
                                                   !.at_entry = This])
           /\ done' = Step("with_hir_id_owner_enter", owner, owner, None, BlankFrame)
    /\ UNCHANGED walk

WithHirIdOwnerExit ==
    /\ Running
    /\ Len(frames) > 0
    /\ Last(frames).kind = "with_hir_id_owner"
    /\ LET fr == Last(frames)
           r == with_hir_id_owner_exit(This, fr.owner, fr.counter, fr.def_index)
       IN  /\ Set(r.this)
           /\ frames' = Front(frames)
           /\ done' = Step("with_hir_id_owner", fr.owner, fr.owner, None, fr)
    /\ UNCHANGED walk

Next ==
    \/ \E id \in AstIds \cup {NumAstIds + i : i \in 0 .. MaxFreshIds} \cup {DUMMY_NODE_ID} :
          LowerNodeId(id)
    \/ \E id \in PlainIds \cup {DUMMY_NODE_ID}, owner \in OwnerIds \cup {CRATE_NODE_ID} :
          LowerNodeIdWithOwner(id, owner)
    \/ \E owner \in OwnerIds : AllocateHirIdCounter(owner)
    \/ NextId
    \/ \E owner \in OwnerIds \cup {CRATE_NODE_ID} : WithHirIdOwnerEnter(owner)
    \/ WithHirIdOwnerExit

Spec == Init /\ [][Next]_vars

(***************************************************************************)
(* SpecScope: lower_crate over a crate of one function, whose body the     *)
(* walk makes up as it descends.  The nodes of the input take their ids in *)
(* the order the walk meets them.  A block holds at most its trailing      *)
(* expression; break, continue and yield come without label and operand;   *)
(* the element of a repeat expression is a literal; a closure has no       *)
(* argument or one whose type is left out.                                 *)
(***************************************************************************)
InitScope == InitWith(NumScopeAstIds, FALSE, 1 + NumScopeItems)

Top == Last(frames)

\* The calls under which lower_expr is called for a sub-expression.
ExprParents == {"lower_body", "with_loop_scope", "with_loop_condition_scope",
                "with_catch_scope", "lower_expr"}
\* The ones of them that lower a block, whose trailing expression may be
\* missing.
BlockSources == {"fn", "loop", "while", "catch", "for", "whilelet"}

\* lower_expr may be called now for a node that takes `ids` ids and makes
\* `calls` nested calls of helpers.
MayDescend(ids, calls) ==
    /\ Running
    /\ walk.phase = "items"
    /\ Len(frames) > 0
    /\ Top.kind \in ExprParents
    /\ Top.children = 0
    /\ walk.node + ids <= NumScopeAstIds
    /\ (Len(frames) - 3) + calls <= MaxDepth

\* The call on top of the stack has lowered what it had to lower.
Lowered(kind, sources) ==
    /\ Running
    /\ Len(frames) > 0
    /\ Top.kind = kind
    /\ Top.source \in sources
    /\ Top.children = 1 \/ (Top.children = 0 /\ Top.source \in BlockSources)

\* lower_expr returned the expression `id` to the call on top of `stack`.
Returned(stack, id) ==
    IF stack = <<>> THEN stack
    ELSE [stack EXCEPT ![Len(stack)].children = @ + 1, ![Len(stack)].child = id]

Took(ids) == [walk EXCEPT !.node = @ + ids]

\* The function, closure or repeat expression whose body the input node
\* being lowered under `stack` belongs to; 0 outside every body.
EnclosingBody(stack) ==
    IF \E i \in 1 .. Len(stack) : stack[i].kind = "lower_body"
    THEN stack[CHOOSE i \in 1 .. Len(stack) :
                  /\ stack[i].kind = "lower_body"
                  /\ \A j \in (i + 1) .. Len(stack) : stack[j].kind # "lower_body"].expr
    ELSE 0

\* lower_crate up to the walk of ItemLowerer
LowerCrateBegin ==
    /\ Running
    /\ walk.phase = "new"
    /\ \E root \in {lower_node_id(This, CRATE_NODE_ID)} :
       \E checked \in {IF root.this.node_id_to_hir_id[CRATE_NODE_ID + 1] = CRATE_HIR_ID THEN root.this ELSE Panic(root.this)} :   \* debug_assert!
       \E collected \in {allocate_hir_id_counter(checked, walk.item)} :
           /\ Set(collected.this)
           /\ done' = Step("lower_crate_begin", CRATE_NODE_ID, 0, root.ret, BlankFrame)
    /\ walk' = [walk EXCEPT !.phase = "items"]
    /\ UNCHANGED frames

\* ItemLowerer::visit_item of a function, up to lower_block's statements
VisitItemEnter ==
    /\ Running
    /\ walk.phase = "items"
    /\ frames = <<>>
    /\ walk.item <= NumScopeItems
    /\ \E i \in {walk.item} :
       \E body \in {walk.node} :
       \E o \in {with_hir_id_owner_enter(This, i)} :
       \E s \in {with_new_scopes_enter(o.this)} :
       \E b \in {lower_body_enter(s.this)} :
           /\ Set(b.this)
           /\ frames' = IF o.this.panicked THEN frames
                        ELSE <<[BlankFrame EXCEPT !.kind = "with_hir_id_owner",
                                                  !.source = "fn", !.expr = i,
                                                  !.owner = o.ret.owner,
                                                  !.counter = o.ret.counter,
                                                  !.def_index = o.ret.def_index,
                                                  !.at_entry = This],
                                [BlankFrame EXCEPT !.kind = "with_new_scopes",
                                                  !.source = "fn", !.expr = i,
                                                  !.was_in_loop_condition = s.ret.was_in_loop_condition,
                                                  !.catch_scopes = s.ret.catch_scopes,
                                                  !.loop_scopes = s.ret.loop_scopes,
                                                  !.at_entry = o.this],
                                [BlankFrame EXCEPT !.kind = "lower_body",
                                                  !.source = "fn", !.expr = i,
                                                  !.block = body,
                                                  !.prev = b.ret.prev,
                                                  !.at_entry = s.this]>>
           /\ done' = Step("visit_item_enter", i, i, None, BlankFrame)
    /\ walk' = Took(1)

\* ItemLowerer::visit_item of a function, from the end of lower_block on
VisitItemExit ==
    /\ Lowered("lower_body", {"fn"})
    /\ \E f_body \in {frames[3]} :
       \E f_scopes \in {frames[2]} :
       \E f_owner \in {frames[1]} :
       \E i \in {f_owner.owner} :
       \E body \in {lower_block(This, f_body.block, FALSE)} :
       \E value \in {expr(body.this)} :   \* expr_block
       \E b \in {lower_body_exit(value.this, f_body.prev, value.ret, <<>>)} :
       \E ge \in {add_in_band_lifetime_defs_enter(b.this, <<>>)} :
       \E decl \in {lower_fn_decl(ge.this, [inputs |-> <<>>, output |-> None], Some(i), TRUE)} :
       \E gx \in {add_in_band_lifetime_defs_exit(decl.this, ge.ret.old_len, Some(i), <<>>)} :
       \E s \in {with_new_scopes_exit(gx.this, f_scopes.was_in_loop_condition, f_scopes.catch_scopes, f_scopes.loop_scopes)} :
       \E n \in {lower_node_id(s.this, i)} :
       \E o \in {with_hir_id_owner_exit(n.this, f_owner.owner, f_owner.counter, f_owner.def_index)} :
           /\ Set(o.this)
           /\ done' = Step("visit_item", i, i, [body_id |-> b.ret], f_scopes)
    /\ frames' = <<>>
    /\ walk' = [walk EXCEPT !.item = @ + 1]

\* lower_crate after the walk of ItemLowerer
LowerCrateEnd ==
    /\ Running
    /\ walk.phase = "items"
    /\ frames = <<>>
    /\ walk.item > NumScopeItems
    /\ walk' = [walk EXCEPT !.phase = "done"]
    /\ done' = Step("lower_crate", CRATE_NODE_ID, 0, [body_ids |-> DOMAIN bodies], BlankFrame)
    /\ UNCHANGED <<node_id_to_hir_id, item_local_id_counters, current_hir_id_owner,
                   catch_scopes, loop_scopes, is_in_loop_condition, is_generator, bodies,
                   lifetimes_to_define, is_collecting_in_band_lifetimes,
                   in_scope_lifetimes, next_node_id, in_band_lifetimes, is_in_trait_impl,
                   items, trait_items, impl_items, features, diagnostics, frames, panicked>>

\* lower_expr of ExprKind::Lit
LowerLit ==
    /\ MayDescend(1, 0)
    /\ \E e \in {walk.node} :
       \E r \in {lower_expr_lit(This, e)} :
           /\ Set(r.this)
           /\ frames' = Returned(frames, e)
           /\ done' = Step("lit", e, 0, r.ret, BlankFrame)
    /\ walk' = Took(1)

\* lower_expr of ExprKind::Break(None, None)
LowerBreak ==
    /\ MayDescend(1, 0)
    /\ \E e \in {walk.node} :
       \E r \in {lower_expr_break(This, e)} :
           /\ Set(r.this)
           /\ frames' = Returned(frames, e)
           /\ done' = Step("break", e, 0, r.ret, BlankFrame)
    /\ walk' = Took(1)

\* lower_expr of ExprKind::Continue(None)
LowerContinue ==
    /\ MayDescend(1, 0)
    /\ \E e \in {walk.node} :
       \E r \in {lower_expr_break(This, e)} :
           /\ Set(r.this)
           /\ frames' = Returned(frames, e)
           /\ done' = Step("continue", e, 0, r.ret, BlankFrame)
    /\ walk' = Took(1)

\* lower_expr of ExprKind::Yield(None)
LowerYield ==
    /\ MayDescend(1, 0)
    /\ \E e \in {walk.node} :
       \E r \in {lower_expr_yield(This, e)} :
           /\ Set(r.this)
           /\ frames' = Returned(frames, e)
           /\ done' = Step("yield", e, 0, r.ret, BlankFrame)
    /\ walk' = [Took(1) EXCEPT !.yields = @ \cup {EnclosingBody(frames)}]

\* lower_expr of ExprKind::Loop, up to lower_block's statements
LoopEnter ==
    /\ MayDescend(2, 1)
    /\ \E e \in {walk.node} :
       \E body \in {walk.node + 1} :
       \E l \in {with_loop_scope_enter(This, e)} :
           /\ Set(l.this)
           /\ frames' = Append(frames,
                           [BlankFrame EXCEPT !.kind = "with_loop_scope",
                                              !.source = "loop", !.expr = e,
                                              !.id = e, !.block = body,
                                              !.len = l.ret.len,
                                              !.was_in_loop_condition = l.ret.was_in_loop_condition,
                                              !.at_entry = This])
           /\ done' = Step("loop_enter", e, 0, None, BlankFrame)
    /\ walk' = Took(2)

\* lower_expr of ExprKind::While, up to the lowering of the condition
WhileEnter ==
    /\ MayDescend(2, 2)
    /\ \E e \in {walk.node} :
       \E body \in {walk.node + 1} :
       \E l \in {with_loop_scope_enter(This, e)} :
       \E c \in {with_loop_condition_scope_enter(l.this)} :
           /\ Set(c.this)
           /\ frames' = frames \o
                          <<[BlankFrame EXCEPT !.kind = "with_loop_scope",
                                               !.source = "while", !.expr = e,
                                               !.id = e, !.block = body,
                                               !.len = l.ret.len,
                                               !.was_in_loop_condition = l.ret.was_in_loop_condition,
                                               !.at_entry = This],
                            [BlankFrame EXCEPT !.kind = "with_loop_condition_scope",
                                               !.source = "while", !.expr = e,
                                               !.was_in_loop_condition = c.ret.was_in_loop_condition,
                                               !.at_entry = l.this]>>
           /\ done' = Step("while_enter", e, 0, None, BlankFrame)
    /\ walk' = Took(2)

\* lower_expr of ExprKind::While, from the lowered condition to
\* lower_block's statements
WhileCondExit ==
    /\ Lowered("with_loop_condition_scope", {"while"})
    /\ Top.children = 1
    /\ \E fr \in {Top} :
       \E c \in {with_loop_condition_scope_exit(This, fr.was_in_loop_condition)} :
           /\ Set(c.this)
           /\ done' = Step("with_loop_condition_scope", fr.expr, 0, None, fr)
    /\ frames' = Front(frames)
    /\ UNCHANGED walk

\* lower_expr of ExprKind::Loop and ExprKind::While, from the end of
\* lower_block on
LoopExit ==
    /\ Lowered("with_loop_scope", {"loop", "while"})
    /\ \E fr \in {Top} :
       \E body \in {lower_block(This, fr.block, FALSE)} :
       \E l \in {with_loop_scope_exit(body.this, fr.len, fr.was_in_loop_condition)} :
       \E r \in {lower_node_id(l.this, fr.expr)} :
           /\ Set(r.this)
           /\ frames' = IF r.this.panicked THEN frames
                        ELSE Returned(Front(frames), fr.expr)
           /\ done' = Step("with_loop_scope", fr.expr, 0, [block |-> body.ret], fr)
    /\ UNCHANGED walk

\* lower_expr of ExprKind::Catch, up to lower_block's statements
CatchEnter ==
    /\ MayDescend(2, 1)
    /\ \E e \in {walk.node} :
       \E body \in {walk.node + 1} :
       \E c \in {with_catch_scope_enter(This, body)} :
           /\ Set(c.this)
           /\ frames' = Append(frames,
                           [BlankFrame EXCEPT !.kind = "with_catch_scope",
                                              !.source = "catch", !.expr = e,
                                              !.id = body, !.block = body,
                                              !.len = c.ret.len,
                                              !.at_entry = This])
           /\ done' = Step("catch_enter", e, 0, None, BlankFrame)
    /\ walk' = Took(2)

\* lower_expr of ExprKind::Catch, from the end of lower_block on
CatchExit ==
    /\ Lowered("with_catch_scope", {"catch"})
    /\ \E fr \in {Top} :
       \E body \in {lower_block(This, fr.block, TRUE)} :
       \E c \in {with_catch_scope_exit(body.this, fr.len)} :
       \E r \in {lower_node_id(c.this, fr.expr)} :
           /\ Set(r.this)
           /\ frames' = IF r.this.panicked THEN frames
                        ELSE Returned(Front(frames), fr.expr)
           /\ done' = Step("with_catch_scope", fr.expr, 0, [block |-> body.ret], fr)
    /\ UNCHANGED walk

\* lower_expr of ExprKind::Closure, up to the lowering of its body
ClosureEnter(has_inputs) ==
    /\ MayDescend(IF has_inputs THEN 4 ELSE 1, 2)
    /\ \E e \in {walk.node} :
       \E inputs \in {IF has_inputs THEN <<[id |-> e + 1, pat |-> e + 2, ty |-> Ty_Infer(e + 3)]>> ELSE <<>>} :
       \E s \in {with_new_scopes_enter(This)} :
       \E b \in {lower_body_enter(s.this)} :
           /\ Set(b.this)
           /\ frames' = frames \o
                          <<[BlankFrame EXCEPT !.kind = "with_new_scopes",
                                               !.source = "closure", !.expr = e,
                                               !.was_in_loop_condition = s.ret.was_in_loop_condition,
                                               !.catch_scopes = s.ret.catch_scopes,
                                               !.loop_scopes = s.ret.loop_scopes,
                                               !.at_entry = This],
                            [BlankFrame EXCEPT !.kind = "lower_body",
                                               !.source = "closure", !.expr = e,
                                               !.inputs = inputs,
                                               !.prev = b.ret.prev,
                                               !.at_entry = s.this]>>
           /\ done' = Step("closure_enter", e, 0, None, BlankFrame)
    /\ walk' = Took(IF has_inputs THEN 4 ELSE 1)

\* lower_expr of ExprKind::Closure, from the lowered body on.  A generator
\* with explicit arguments is an error after which the session aborts:
\* with_new_scopes is left by unwinding.
ClosureExit ==
    /\ Lowered("lower_body", {"closure"})
    /\ \E f_body \in {Top} :
       \E f_scopes \in {frames[Len(frames) - 1]} :
       \E e \in {f_body.expr} :
       \E local_is_generator \in {is_generator} :
       \E b \in {lower_body_exit(This, f_body.prev, f_body.child, f_body.inputs)} :
       \E decl \in {lower_fn_decl(b.this, [inputs |-> f_body.inputs, output |-> None], None, FALSE)} :
       \E s \in {with_new_scopes_exit(decl.this, f_scopes.was_in_loop_condition, f_scopes.catch_scopes, f_scopes.loop_scopes)} :
       \E r \in {lower_node_id(s.this, e)} :
           IF local_is_generator /\ f_body.inputs # <<>>
           THEN /\ Set(Panic(b.this))                       \* abort_if_errors()
                /\ frames' = Front(frames)
                /\ done' = Step("abort_if_errors", e, 0, None, f_scopes)
           ELSE /\ Set(r.this)
                /\ frames' = IF r.this.panicked THEN Front(frames)
                             ELSE Returned(Front(Front(frames)), e)
                /\ done' = Step("with_new_scopes", e, 0,
                                [body_id |-> b.ret, is_generator |-> local_is_generator],
                                f_scopes)
    /\ UNCHANGED walk

\* lower_expr of ExprKind::Repeat, up to the lowering of the count
RepeatEnter ==
    /\ MayDescend(2, 1)
    /\ \E e \in {walk.node} :
       \E elem \in {lower_expr_lit(This, walk.node + 1)} :
       \E b \in {lower_body_enter(elem.this)} :
           /\ Set(b.this)
           /\ frames' = Append(frames,
                           [BlankFrame EXCEPT !.kind = "lower_body",
                                              !.source = "repeat", !.expr = e,
                                              !.prev = b.ret.prev,
                                              !.at_entry = elem.this])
           /\ done' = Step("repeat_enter", e, 0, None, BlankFrame)
    /\ walk' = Took(2)

\* lower_expr of ExprKind::Repeat, from the lowered count on
RepeatExit ==
    /\ Lowered("lower_body", {"repeat"})
    /\ \E fr \in {Top} :
       \E b \in {lower_body_exit(This, fr.prev, fr.child, <<>>)} :
       \E r \in {lower_node_id(b.this, fr.expr)} :
           /\ Set(r.this)
           /\ frames' = IF r.this.panicked THEN frames
                        ELSE Returned(Front(frames), fr.expr)
           /\ done' = Step("lower_body", fr.expr, 0, [body_id |-> b.ret], fr)
    /\ UNCHANGED walk

\* lower_expr of ExprKind::Try, up to the lowering of the operand
TryEnter ==
    /\ MayDescend(1, 1)
    /\ \E e \in {walk.node} :
           /\ frames' = Append(frames,
                           [BlankFrame EXCEPT !.kind = "lower_expr",
                                              !.source = "try", !.expr = e,
                                              !.at_entry = This])
           /\ done' = Step("try_enter", e, 0, None, BlankFrame)
    /\ walk' = Took(1)
    /\ UNCHANGED <<node_id_to_hir_id, item_local_id_counters, current_hir_id_owner,
                   catch_scopes, loop_scopes, is_in_loop_condition, is_generator, bodies,
                   lifetimes_to_define, is_collecting_in_band_lifetimes,
                   in_scope_lifetimes, next_node_id, in_band_lifetimes, is_in_trait_impl,
                   items, trait_items, impl_items, features, diagnostics, panicked>>

\* lower_expr of ExprKind::Try, from the lowered operand on
TryExit ==
    /\ Lowered("lower_expr", {"try"})
    /\ \E fr \in {Top} :
       \E r \in {lower_expr_try(This, fr.expr)} :
           /\ Set(r.this)
           /\ frames' = IF r.this.panicked THEN frames
                        ELSE Returned(Front(frames), fr.expr)
           /\ done' = Step("try", fr.expr, 0, r.ret, fr)
    /\ UNCHANGED walk

\* lower_expr of ExprKind::Range whose operands are literals
LowerRange(has_start, has_end, lims) ==
    /\ MayDescend(1 + (IF has_start THEN 1 ELSE 0) + (IF has_end THEN 1 ELSE 0), 0)
    /\ \E e \in {walk.node} :
       \E e1 \in {IF has_start THEN Some(e + 1) ELSE None} :
       \E e2 \in {IF has_end THEN Some(e + 1 + Len(e1)) ELSE None} :
       \E r \in {lower_expr_range(This, e, e1, e2, lims)} :
           /\ Set(r.this)
           /\ frames' = IF r.this.panicked THEN frames ELSE Returned(frames, e)
           /\ done' = Step(IF r.this.panicked THEN "span_fatal" ELSE "range", e, 0,
                           [e1 |-> e1, e2 |-> e2, lims |-> lims, expr |-> r.ret],
                           BlankFrame)
           /\ walk' = Took(1 + Len(e1) + Len(e2))

\* lower_expr of ExprKind::InPlace whose operands are literals
LowerInPlace ==
    /\ MayDescend(3, 0)
    /\ \E e \in {walk.node} :
       \E r \in {lower_expr_in_place(This, e, e + 1, e + 2)} :
           /\ Set(r.this)
           /\ frames' = IF r.this.panicked THEN frames ELSE Returned(frames, e)
           /\ done' = Step("in_place", e, 0, r.ret, BlankFrame)
    /\ walk' = Took(3)

\* lower_expr of ExprKind::ForLoop with a literal or an unlabeled break
\* for head, up to lower_block's statements
ForLoopEnter(head_is_break) ==
    /\ MayDescend(4, 1)
    /\ \E e \in {walk.node} :
       \E made \in {lower_expr_for_loop_enter(This, e, e + 1, e + 2, head_is_break)} :
           /\ Set(made.this)
           /\ frames' = Append(frames,
                           [BlankFrame EXCEPT !.kind = "with_loop_scope",
                                              !.source = "for", !.expr = e,
                                              !.id = e, !.block = e + 3,
                                              !.len = made.ret.len,
                                              !.was_in_loop_condition =
                                                  made.ret.was_in_loop_condition,
                                              !.lowered = <<made.ret>>,
                                              !.at_entry = This])
           /\ done' = Step("for_loop_enter", e, 0, None, BlankFrame)
    /\ walk' = Took(4)

\* lower_expr of ExprKind::ForLoop from the end of lower_block on
ForLoopExit ==
    /\ Lowered("with_loop_scope", {"for"})
    /\ \E fr \in {Top} :
       \E r \in {lower_expr_for_loop_exit(This, fr.expr, fr.block, fr.lowered[1],
                                          IF fr.children = 0 THEN None ELSE Some(fr.child))} :
           /\ Set(r.this)
           /\ frames' = IF r.this.panicked THEN frames
                        ELSE Returned(Front(frames), r.ret.id)
           /\ done' = Step("for_loop", fr.expr, 0, r.ret, fr)
    /\ UNCHANGED walk

\* The loops a label can name where the walk stands.
Labels == {<<"Label", loop_scopes[i]>> : i \in 1 .. Len(loop_scopes)} \cup {<<"Err", 0>>}

\* lower_expr of ExprKind::Break(Some(label), None)
LowerBreakLabeled(def) ==
    /\ MayDescend(1, 0)
    /\ def \in Labels
    /\ \E e \in {walk.node} :
       \E r \in {lower_expr_break_labeled(This, e, def)} :
           /\ Set(r.this)
           /\ frames' = Returned(frames, e)
           /\ done' = Step("break_labeled", e, 0, [def |-> def] @@ r.ret, BlankFrame)
    /\ walk' = Took(1)

\* lower_expr of ExprKind::Continue(Some(label))
LowerContinueLabeled(def) ==
    /\ MayDescend(1, 0)
    /\ def \in Labels
    /\ \E e \in {walk.node} :
       \E r \in {lower_expr_break_labeled(This, e, def)} :
           /\ Set(r.this)
           /\ frames' = Returned(frames, e)
           /\ done' = Step("continue_labeled", e, 0, [def |-> def] @@ r.ret, BlankFrame)
    /\ walk' = Took(1)

\* lower_expr of ExprKind::WhileLet, up to lower_block's statements
WhileLetEnter ==
    /\ MayDescend(3, 2)
    /\ \E e \in {walk.node} :
       \E l \in {with_loop_scope_enter(This, e)} :
           /\ Set(l.this)
           /\ frames' = Append(frames,
                           [BlankFrame EXCEPT !.kind = "with_loop_scope",
                                              !.source = "whilelet", !.expr = e,
                                              !.id = e, !.block = e + 1,
                                              !.inputs = <<e + 2>>,
                                              !.len = l.ret.len,
                                              !.was_in_loop_condition = l.ret.was_in_loop_condition,
                                              !.at_entry = This])
           /\ done' = Step("while_let_enter", e, 0, None, BlankFrame)
    /\ walk' = Took(3)

\* lower_expr of ExprKind::WhileLet, from the end of lower_block to the
\* lowering of the subject
WhileLetSubjectEnter ==
    /\ Lowered("with_loop_scope", {"whilelet"})
    /\ \E fr \in {Top} :
       \E made \in {lower_expr_while_let_body(This, fr.block,
                                              IF fr.children = 0 THEN None ELSE Some(fr.child))} :
           /\ Set(made.this)
           /\ frames' = Front(frames) \o
                          <<[fr EXCEPT !.lowered = <<made.ret>>],
                            [BlankFrame EXCEPT !.kind = "with_loop_condition_scope",
                                               !.source = "whilelet", !.expr = fr.expr,
                                               !.was_in_loop_condition =
                                                   made.ret.was_in_loop_condition,
                                               !.at_entry = This]>>
           /\ done' = Step("while_let_subject_enter", fr.expr, 0, None, BlankFrame)
    /\ UNCHANGED walk

\* lower_expr of ExprKind::WhileLet, from the lowered subject on
WhileLetExit ==
    /\ Lowered("with_loop_condition_scope", {"whilelet"})
    /\ Top.children = 1
    /\ \E subject \in {Top} :
       \E fr \in {frames[Len(frames) - 1]} :
       \E r \in {lower_expr_while_let_exit(This, fr.expr, fr.inputs[1], fr.lowered[1],
                                           subject.child, fr.len,
                                           fr.was_in_loop_condition)} :
           /\ Set(r.this)
           /\ frames' = IF r.this.panicked THEN frames
                        ELSE Returned(Front(Front(frames)), fr.expr)
           /\ done' = Step("while_let", fr.expr, 0, r.ret, fr)
    /\ UNCHANGED walk

NextScope ==
    \/ LowerCrateBegin
    \/ VisitItemEnter
    \/ VisitItemExit
    \/ LowerCrateEnd
    \/ LowerLit
    \/ LowerBreak
    \/ LowerContinue
    \/ LowerYield
    \/ LoopEnter
    \/ WhileEnter
    \/ WhileCondExit
    \/ LoopExit
    \/ CatchEnter
    \/ CatchExit
    \/ \E has_inputs \in BOOLEAN : ClosureEnter(has_inputs)
    \/ ClosureExit
    \/ RepeatEnter
    \/ RepeatExit
    \/ TryEnter
    \/ TryExit
    \/ \E head_is_break \in BOOLEAN : ForLoopEnter(head_is_break)
    \/ ForLoopExit
    \/ \E def \in Labels : LowerBreakLabeled(def)
    \/ \E def \in Labels : LowerContinueLabeled(def)
    \/ WhileLetEnter
    \/ WhileLetSubjectEnter
    \/ WhileLetExit
    \/ LowerInPlace
    \/ \E has_start \in BOOLEAN, has_end \in BOOLEAN, lims \in RangeLimits :
          LowerRange(has_start, has_end, lims)

SpecScope == InitScope /\ [][NextScope]_vars

(***************************************************************************)
(* SpecRegion: lower_crate over a crate of one function without body       *)
(* statements, whose signature the walk makes up as it descends: explicit  *)
(* lifetime parameters, type parameters `T: 'n`, where predicates          *)
(* `for<..> T: 'n`, arguments of type `&'n T` or `for<..> fn(&'n T)`.      *)
(* walk.uses is the list of the lifetime references of the signature in    *)
(* the order the pass meets them, each with the part of the signature it   *)
(* stands in and whether a `for<..>` around it declares its name.          *)
(***************************************************************************)
InitRegion == \E feature \in BOOLEAN : InitWith(NumRegionAstIds, feature, 1 + NumScopeItems)

\* The names the signatures refer to and the ones `for<..>` declares.
UseNames == {"'a", "'b", StaticName, UnderscoreName}
Binders == {<<>>, <<"'a">>}
\* generics.lifetimes of the signatures: a list of (name, names of bounds)
ExplicitLifetimes ==
    {<<>>,
     <<[name |-> "'x", bounds |-> <<>>]>>,
     <<[name |-> "'x", bounds |-> <<"'b">>]>>,
     <<[name |-> "'a", bounds |-> <<>>]>>}

Lifetime(id, name) == [id |-> id, name |-> name]
LifetimeDef(lifetime, bounds) == [lifetime |-> lifetime, bounds |-> bounds]

\* The ids a list of lifetime definitions takes.
IdsOf(defs) == IF defs = <<>> THEN 0 ELSE Len(defs) + Len(defs[1].bounds)

\* The definitions of a list of at most one (name, names of bounds), its
\* nodes numbered from `first` on.
Numbered(defs, first) ==
    [i \in 1 .. Len(defs) |->
        LifetimeDef(Lifetime(first, defs[i].name),
                    [j \in 1 .. Len(defs[i].bounds) |->
                        Lifetime(first + j, defs[i].bounds[j])])]

Use(name, part, bound) == [name |-> name, part |-> part, bound |-> bound]

\* The signature is being lowered and `ids` ids of nodes are left.
InSignature(parts, ids) ==
    /\ Running
    /\ walk.phase \in parts
    /\ Len(frames) > 0
    /\ Top.kind = "add_in_band_lifetime_defs"
    /\ walk.node + ids <= NumRegionAstIds

\* ItemLowerer::visit_item of a function, up to lower_generics
SignatureEnter(explicit, nargs) ==
    /\ Running
    /\ walk.phase = "items"
    /\ frames = <<>>
    /\ walk.item <= NumScopeItems
    /\ walk.node + 1 + 2 * nargs + IdsOf(explicit) <= NumRegionAstIds
    /\ \E i \in {walk.item} :
       \E block \in {walk.node} :
       \E inputs \in {[k \in 1 .. nargs |-> [id |-> walk.node + 2 * k - 1,
                                              pat |-> walk.node + 2 * k]]} :
       \E lifetimes \in {Numbered(explicit, walk.node + 1 + 2 * nargs)} :
       \E o \in {with_hir_id_owner_enter(This, i)} :
       \E s \in {with_new_scopes_enter(o.this)} :
       \E b \in {lower_body_enter(s.this)} :
       \E body \in {lower_block(b.this, block, FALSE)} :
       \E value \in {expr(body.this)} :
       \E bx \in {lower_body_exit(value.this, b.ret.prev, value.ret, inputs)} :
       \E ge \in {add_in_band_lifetime_defs_enter(bx.this, Names(lifetimes))} :
           /\ Set(ge.this)
           /\ frames' = IF ge.this.panicked THEN frames
                        ELSE <<[BlankFrame EXCEPT !.kind = "with_hir_id_owner",
                                                  !.source = "fn", !.expr = i,
                                                  !.owner = o.ret.owner,
                                                  !.counter = o.ret.counter,
                                                  !.def_index = o.ret.def_index,
                                                  !.at_entry = This],
                                [BlankFrame EXCEPT !.kind = "with_new_scopes",
                                                  !.source = "fn", !.expr = i,
                                                  !.was_in_loop_condition = s.ret.was_in_loop_condition,
                                                  !.catch_scopes = s.ret.catch_scopes,
                                                  !.loop_scopes = s.ret.loop_scopes,
                                                  !.at_entry = o.this],
                                [BlankFrame EXCEPT !.kind = "add_in_band_lifetime_defs",
                                                  !.source = "fn", !.expr = i,
                                                  !.lifetimes = lifetimes,
                                                  !.inputs = inputs,
                                                  !.old_len = ge.ret.old_len,
                                                  !.at_entry = bx.this]>>
           /\ done' = Step("signature_enter", i, i, [body_id |-> bx.ret], BlankFrame)
    /\ walk' = [walk EXCEPT !.phase = "ty_params",
                            !.node = @ + 1 + 2 * nargs + IdsOf(explicit),
                            !.uses = <<>>]

\* lower_generics: lower_ty_param of a parameter `T: 'name`
LowerTyParam(name) ==
    /\ InSignature({"ty_params"}, 2)
    /\ \E tp \in {[id |-> walk.node + 1,
                    bounds |-> <<RegionTyParamBound(Lifetime(walk.node, name))>>]} :
       \E r \in {lower_ty_param(This, tp)} :
           /\ Set(r.this)
           /\ done' = Step("lower_ty_param", tp.id, 0, r.ret, BlankFrame)
    /\ walk' = [walk EXCEPT !.node = @ + 2,
                            !.uses = Append(@, Use(name, "ty_params", FALSE))]
    /\ UNCHANGED frames

\* lower_generics: lower_ty_param of a parameter `T: for<binder> Tr<'name>`
LowerTyParamTraitBound(binder, name) ==
    /\ InSignature({"ty_params"}, 3 + Len(binder))
    /\ \E first \in {walk.node + Len(binder)} :
       \E tp \in {[id |-> first + 2,
                    bounds |-> <<TraitTyParamBound(
                                    [k \in 1 .. Len(binder) |->
                                        LifetimeDef(Lifetime(walk.node + k - 1, binder[k]), <<>>)],
                                    first + 1,
                                    <<Lifetime(first, name)>>)>>]} :
       \E r \in {lower_ty_param(This, tp)} :
           /\ Set(r.this)
           /\ done' = Step("lower_ty_param", tp.id, 0, r.ret, BlankFrame)
    /\ walk' = [walk EXCEPT !.node = @ + 3 + Len(binder),
                            !.uses = Append(@, Use(name, "ty_params", Contains(binder, name)))]
    /\ UNCHANGED frames

\* lower_generics from lower_lifetime_defs to the where clause's predicates
LowerGenericsLifetimes ==
    /\ InSignature({"ty_params"}, 1)
    /\ \E wc \in {walk.node} :
       \E lifetimes \in {lower_lifetime_defs(This, Top.lifetimes)} :
       \E r \in {lower_node_id(lifetimes.this, wc)} :
           /\ Set(r.this)
           /\ frames' = [frames EXCEPT ![Len(frames)].lowered = lifetimes.ret]
           /\ done' = Step("lower_lifetime_defs", wc, 0, lifetimes.ret, BlankFrame)
    /\ walk' = [walk EXCEPT !.phase = "where",
                            !.node = @ + 1,
                            !.uses = @ \o [j \in 1 .. IdsOf(Top.lifetimes) - Len(Top.lifetimes) |->
                                             Use(Top.lifetimes[1].bounds[j].name, "lifetimes", FALSE)]]

\* lower_where_clause: lower_where_predicate of `for<binder> T: 'name`
LowerWherePredicate(binder, name) ==
    /\ InSignature({"where"}, 2 + Len(binder))
    /\ \E first \in {walk.node + Len(binder)} :
       \E pred \in {[bound_lifetimes |-> [k \in 1 .. Len(binder) |->
                                            LifetimeDef(Lifetime(walk.node + k - 1, binder[k]), <<>>)],
                     bounded_ty |-> Ty_Path(first),
                     bounds |-> <<RegionTyParamBound(Lifetime(first + 1, name))>>]} :
       \E r \in {lower_where_predicate(This, pred)} :
           /\ Set(r.this)
           /\ done' = Step("lower_where_predicate", first, 0, r.ret, BlankFrame)
    /\ walk' = [walk EXCEPT !.node = @ + 2 + Len(binder),
                            !.uses = Append(@, Use(name, "where", Contains(binder, name)))]
    /\ UNCHANGED frames

\* lower_fn_decl: lower_ty of the type of the next argument, `&'name T` or
\* `for<binder> fn(&'name T)`
LowerArgTy(binder, name) ==
    /\ InSignature({"where", "decl"}, 3 + 2 * Len(binder))
    /\ Top.children < Len(Top.inputs)
    /\ \E first \in {walk.node + Len(binder)} :
       \E rptr \in {Ty_Rptr(first + 2, Some(Lifetime(first, name)), Ty_Path(first + 1))} :
       \E ty \in {IF binder = <<>>
                  THEN rptr
                  ELSE Ty_BareFn(first + 3,
                                 [k \in 1 .. Len(binder) |->
                                     LifetimeDef(Lifetime(walk.node + k - 1, binder[k]), <<>>)],
                                 <<[ty |-> rptr]>>)} :
       \E r \in {lower_fn_decl_inputs(This, <<[ty |-> ty]>>, Some(walk.item))} :
           /\ Set(r.this)
           /\ done' = Step("lower_ty", ty.id, 0, r.ret, BlankFrame)
    /\ frames' = [frames EXCEPT ![Len(frames)].children = @ + 1]
    /\ walk' = [walk EXCEPT !.phase = "decl",
                            !.node = @ + 3 + 2 * Len(binder),
                            !.uses = Append(@, Use(name, "decl", Contains(binder, name)))]

\* lower_fn_decl: lower_ty of the type of the next argument, `&T` or
\* `for<binder> fn(&T)`
LowerArgTyElided(binder) ==
    /\ InSignature({"where", "decl"}, 2 + 2 * Len(binder))
    /\ Top.children < Len(Top.inputs)
    /\ \E first \in {walk.node + Len(binder)} :
       \E rptr \in {Ty_Rptr(first + 1, None, Ty_Path(first))} :
       \E ty \in {IF binder = <<>>
                  THEN rptr
                  ELSE Ty_BareFn(first + 2,
                                 [k \in 1 .. Len(binder) |->
                                     LifetimeDef(Lifetime(walk.node + k - 1, binder[k]), <<>>)],
                                 <<[ty |-> rptr]>>)} :
       \E r \in {lower_fn_decl_inputs(This, <<[ty |-> ty]>>, Some(walk.item))} :
           /\ Set(r.this)
           /\ done' = Step("lower_ty_elided", ty.id, 0, r.ret, BlankFrame)
    /\ frames' = [frames EXCEPT ![Len(frames)].children = @ + 1]
    /\ walk' = [walk EXCEPT !.phase = "decl", !.node = @ + 2 + 2 * Len(binder)]

\* ItemLowerer::visit_item of a function, from the end of lower_fn_decl on
SignatureExit ==
    /\ InSignature({"where", "decl"}, 0)
    /\ Top.children = Len(Top.inputs)
    /\ \E f_generics \in {frames[3]} :
       \E f_scopes \in {frames[2]} :
       \E f_owner \in {frames[1]} :
       \E i \in {f_owner.owner} :
       \E gx \in {add_in_band_lifetime_defs_exit(This, f_generics.old_len,
                                                 Some(opt_def_index(i)), f_generics.lowered)} :
       \E s \in {with_new_scopes_exit(gx.this, f_scopes.was_in_loop_condition,
                                      f_scopes.catch_scopes, f_scopes.loop_scopes)} :
       \E n \in {lower_node_id(s.this, i)} :
       \E o \in {with_hir_id_owner_exit(n.this, f_owner.owner, f_owner.counter,
                                        f_owner.def_index)} :
           /\ Set(o.this)
           /\ done' = Step("add_in_band_lifetime_defs", i, i, [lifetimes |-> gx.ret],
                           f_generics)
    /\ frames' = <<>>
    /\ walk' = [walk EXCEPT !.phase = "items", !.item = @ + 1]

NextRegion ==
    \/ LowerCrateBegin
    \/ \E explicit \in ExplicitLifetimes, nargs \in 0 .. MaxArgs : SignatureEnter(explicit, nargs)
    \/ \E name \in UseNames : LowerTyParam(name)
    \/ \E binder \in Binders, name \in UseNames : LowerTyParamTraitBound(binder, name)
    \/ LowerGenericsLifetimes
    \/ \E binder \in Binders, name \in UseNames : LowerWherePredicate(binder, name)
    \/ \E binder \in Binders, name \in UseNames : LowerArgTy(binder, name)
    \/ \E binder \in Binders : LowerArgTyElided(binder)
    \/ SignatureExit
    \/ LowerCrateEnd

SpecRegion == InitRegion /\ [][NextRegion]_vars

(***************************************************************************)
(* SpecCapture: lower_crate over a crate of one function without           *)
(* arguments whose return type is `impl B1 + B2`, the bounds being made up *)
(* by the walk: `'n`, `for<..> Tr<'n>`, `for<..> Tr` with a lifetime left  *)
(* out, `for<..> Tr<&'n T>`, `for<..> Tr<&T>`, `for<..> Fn(&'n T)`,        *)
(* `for<..> Fn(&T)`, `Tr<for<..> fn(&'n T)>` and `Tr<for<..> fn(&T)>`.     *)
(***************************************************************************)
InitCapture == \E feature \in BOOLEAN : InitWith(NumRegionAstIds, feature, 1 + NumScopeItems)

\* A bound is (form, binder of the trait, binder of the function pointer,
\* region); the region is an Option.
BoundForms == {"Region", "Angle", "Rptr", "Paren", "BareFn"}
Regions == {None} \cup {Some(n) : n \in UseNames}
BoundShape(form, binder, fn_binder, region) ==
    [form |-> form, binder |-> binder, fn_binder |-> fn_binder, region |-> region]
BoundShapes ==
    {BoundShape("Region", <<>>, <<>>, Some(n)) : n \in UseNames}
        \cup {BoundShape(form, binder, <<>>, region) :
                 form \in {"Angle", "Rptr", "Paren"}, binder \in Binders, region \in Regions}
        \cup {BoundShape("BareFn", <<>>, fn_binder, region) :
                 fn_binder \in Binders, region \in Regions}
BoundLists ==
    UNION {[1 .. n -> BoundShapes] : n \in 1 .. MaxBounds}

\* The definitions of a binder, its nodes numbered from `first` on.
BinderDefs(binder, first) ==
    [k \in 1 .. Len(binder) |-> LifetimeDef(Lifetime(first + k - 1, binder[k]), <<>>)]

\* The ids the nodes of a bound take.
BoundSize(shape) ==
    Len(shape.binder) + Len(shape.fn_binder)
        + (IF shape.region = None THEN 0 ELSE 1)
        + (CASE shape.form = "Region" -> 0
             [] shape.form = "Angle" -> 1
             [] shape.form \in {"Rptr", "Paren"} -> 3
             [] shape.form = "BareFn" -> 4)

\* The bound of a shape, its nodes numbered from `first` on.
AstBound(shape, first) ==
    LET n0 == first + Len(shape.binder)
        m0 == n0 + Len(shape.fn_binder)
        r == IF shape.region = None THEN 0 ELSE 1
        region == IF shape.region = None
                  THEN None
                  ELSE Some(Lifetime(m0, Unwrap(shape.region)))
        rptr == Ty_Rptr(m0 + r + 1, region, Ty_Path(m0 + r))
        binder == BinderDefs(shape.binder, first)
    IN  CASE shape.form = "Region" -> RegionTyParamBound(Unwrap(region))
          [] shape.form = "Angle" ->
                PolyTraitRef(binder, n0 + r,
                             AngleBracketed(IF region = None THEN <<>> ELSE <<Unwrap(region)>>,
                                            <<>>, 1))
          [] shape.form = "Rptr" ->
                PolyTraitRef(binder, n0 + r + 2, AngleBracketed(<<>>, <<rptr>>, 0))
          [] shape.form = "Paren" ->
                PolyTraitRef(binder, n0 + r + 2, Parenthesized(<<rptr>>))
          [] shape.form = "BareFn" ->
                PolyTraitRef(binder, m0 + r + 3,
                             AngleBracketed(<<>>,
                                            <<Ty_BareFn(m0 + r + 2,
                                                        BinderDefs(shape.fn_binder, n0),
                                                        <<[ty |-> rptr]>>)>>,
                                            0))

RECURSIVE BoundsSize(_)
BoundsSize(shapes) ==
    IF shapes = <<>> THEN 0 ELSE BoundSize(Head(shapes)) + BoundsSize(Tail(shapes))

RECURSIVE AstBounds(_, _)
AstBounds(shapes, first) ==
    IF shapes = <<>>
    THEN <<>>
    ELSE <<AstBound(Head(shapes), first)>>
             \o AstBounds(Tail(shapes), first + BoundSize(Head(shapes)))

\* The fields of the collector but the context it borrows.
CollectorOf(self) == [self EXCEPT !.context = None]

\* lower_fn_decl: lower_ty of the return type `impl bounds` up to the loop
\* of lifetimes_from_impl_trait_bounds
ReturnTyEnter(shapes) ==
    /\ InSignature({"where"}, BoundsSize(shapes) + 1)
    /\ Top.children = Len(Top.inputs)
    /\ \E t \in {walk.node + BoundsSize(shapes)} :
       \E hir_bounds \in {lower_bounds(This, AstBounds(shapes, walk.node),
                                      ImplTraitContext_Existential)} :
           /\ Set(hir_bounds.this)
           /\ frames' = IF hir_bounds.this.panicked THEN frames
                        ELSE Append(frames,
                                    [BlankFrame EXCEPT
                                        !.kind = "lifetimes_from_impl_trait_bounds",
                                        !.source = "impl", !.expr = t,
                                        !.inputs = shapes,
                                        !.lowered = hir_bounds.ret,
                                        !.collector = CollectorOf(
                                            ImplTraitLifetimeCollector(hir_bounds.this)),
                                        !.at_entry = This])
           /\ done' = Step("lower_bounds", t, 0, hir_bounds.ret, BlankFrame)
    /\ walk' = [walk EXCEPT !.phase = "ret", !.node = @ + BoundsSize(shapes) + 1]

\* lifetimes_from_impl_trait_bounds: walk_ty_param_bound of the next bound
CollectBound ==
    /\ Running
    /\ walk.phase = "ret"
    /\ Len(frames) > 0
    /\ Top.kind = "lifetimes_from_impl_trait_bounds"
    /\ Top.children < Len(Top.lowered)
    /\ \E self \in {walk_ty_param_bound([Top.collector EXCEPT !.context = This],
                                        Top.lowered[Top.children + 1])} :
           /\ Set(self.context)
           /\ frames' = [frames EXCEPT ![Len(frames)].children = @ + 1,
                                       ![Len(frames)].collector = CollectorOf(self)]
           /\ done' = Step("walk_ty_param_bound", Top.expr, 0,
                           [lifetimes |-> self.output_lifetimes,
                            lifetime_defs |-> self.output_lifetime_defs],
                           Top)
    /\ UNCHANGED walk

\* lower_fn_decl: lower_ty of the return type from the end of that loop on
ReturnTyExit ==
    /\ Running
    /\ walk.phase = "ret"
    /\ Len(frames) > 0
    /\ Top.kind = "lifetimes_from_impl_trait_bounds"
    /\ Top.children = Len(Top.lowered)
    /\ \E r \in {lower_ty_impl_trait_existential_exit(This, Top.expr, Top.lowered,
                                                      Top.collector.output_lifetimes,
                                                      Top.collector.output_lifetime_defs)} :
           /\ Set(r.this)
           /\ done' = Step("lower_ty_impl_trait", Top.expr, 0, r.ret, Top)
    /\ frames' = Front(frames)
    /\ walk' = [walk EXCEPT !.phase = "decl"]

NextCapture ==
    \/ LowerCrateBegin
    \/ \E explicit \in ExplicitLifetimes : SignatureEnter(explicit, 0)
    \/ LowerGenericsLifetimes
    \/ /\ walk.phase = "where"
       /\ \E shapes \in BoundLists : ReturnTyEnter(shapes)
    \/ CollectBound
    \/ ReturnTyExit
    \/ SignatureExit
    \/ LowerCrateEnd

SpecCapture == InitCapture /\ [][NextCapture]_vars

(***************************************************************************)
(* SpecImpl: lower_crate over a crate of one item: a function whose body   *)
(* holds at most a closure, a trait with one method without body, or an    *)
(* impl with one or two methods, where the body of the first method may    *)
(* hold one more impl, that one without lifetimes in its header and with   *)
(* one method.  A method whose body holds an impl has no argument and the  *)
(* default return type.  The header of the impl or trait declares `'h` or  *)
(* no lifetime, and the type an impl is for is a path or `&'h T`.  The     *)
(* owners take the ids 1 .. NumImplOwners: the item, its first method, the *)
(* impl in the body of that method, the method of that impl, the second    *)
(* method.  The other nodes take their ids in the order the walk meets     *)
(* them.                                                                   *)
(***************************************************************************)
InitImpl ==
    \E feature \in BOOLEAN, gates \in {ImplTraitFeatures, {}} :
        InitSession(NumImplAstIds, feature, gates, 1 + NumImplOwners)

\* The types of the signatures: none, a path, `impl Tr`, `fn(impl Tr)`,
\* `fn() -> impl Tr`, `impl Fn(impl Tr)`, `&'h T`.
ArgShapes == {"none", "path", "impl", "fnptr", "paren", "ref_h"}
RetShapes == {"none", "impl", "fnptr_ret", "ref_h"}

HeaderName == "'h"

\* `impl Tr`, its nodes numbered from `first` on
ImplTy(first) ==
    Ty_ImplTrait(first + 1, <<PolyTraitRef(<<>>, first, AngleBracketed(<<>>, <<>>, 0))>>)

\* The type of a shape, its nodes numbered from `first` on, and the number
\* of its nodes.
TyOfShape(shape, first) ==
    CASE shape = "path" -> Ty_Path(first)
      [] shape = "impl" -> ImplTy(first)
      [] shape = "fnptr" -> Ty_BareFn(first + 2, <<>>, <<[ty |-> ImplTy(first)]>>)
      [] shape = "fnptr_ret" -> Ty_BareFnRet(first + 2, <<>>, <<>>, ImplTy(first))
      [] shape = "paren" ->
            Ty_ImplTrait(first + 3,
                         <<PolyTraitRef(<<>>, first + 2, Parenthesized(<<ImplTy(first)>>))>>)
      [] shape = "ref_h" -> Ty_Rptr(first + 2, Some(Lifetime(first, HeaderName)),
                                    Ty_Path(first + 1))

TyIds(shape) ==
    CASE shape = "none" -> 0
      [] shape = "path" -> 1
      [] shape = "impl" -> 2
      [] shape \in {"fnptr", "fnptr_ret", "ref_h"} -> 3
      [] shape = "paren" -> 4

\* The nodes of a closure `|x: impl Tr| literal`
ClosureIds == 6
ArgIds(arg_shape) == IF arg_shape = "none" THEN 0 ELSE 2 + TyIds(arg_shape)

\* A function or method: its block at `first`, the statements of the block
\* (one for each of `nested`, the items of the body), the closure, the
\* argument, the return type, the where clause.
FnAstAt(id, first, arg_shape, ret_shape, nested, has_closure, closure, arg_first, ret_first, wc) ==
    [id |-> id,
     generics |-> [lifetimes |-> <<>>, where_clause |-> wc],
     decl |-> [inputs |-> IF arg_shape = "none" THEN <<>>
                          ELSE <<[id |-> arg_first, pat |-> arg_first + 1,
                                  ty |-> TyOfShape(arg_shape, arg_first + 2)]>>,
               output |-> IF ret_shape = "none" THEN None
                          ELSE Some(TyOfShape(ret_shape, ret_first))],
     body |-> [id |-> first,
               stmts |-> [k \in 1 .. Len(nested) |-> [id |-> first + k, item |-> nested[k]]],
               expr |-> IF has_closure
                        THEN Some([id |-> closure, body |-> closure + 1,
                                   decl |-> [inputs |-> <<[id |-> closure + 2,
                                                           pat |-> closure + 3,
                                                           ty |-> ImplTy(closure + 4)]>>,
                                             output |-> None]])
                        ELSE None]]

FnIds(arg_shape, ret_shape, nested, has_closure) ==
    1 + Len(nested) + (IF has_closure THEN ClosureIds ELSE 0)
      + ArgIds(arg_shape) + TyIds(ret_shape) + 1

FnAst(id, first, arg_shape, ret_shape, nested, has_closure) ==
    FnAstAt(id, first, arg_shape, ret_shape, nested, has_closure,
            first + 1 + Len(nested),
            first + 1 + Len(nested) + (IF has_closure THEN ClosureIds ELSE 0),
            first + 1 + Len(nested) + (IF has_closure THEN ClosureIds ELSE 0)
                  + ArgIds(arg_shape),
            first + FnIds(arg_shape, ret_shape, nested, has_closure) - 1)

\* The header of an impl or trait: the lifetimes, the where clause, the
\* trait an impl is of, the type an impl is for.
HeaderLifetimes(declares) ==
    IF declares THEN <<[name |-> HeaderName, bounds |-> <<>>]>> ELSE <<>>

HeaderIds(h) ==
    IdsOf(HeaderLifetimes(h.declares)) + 1
      + (IF h.kind = "impl" /\ h.of_trait THEN 1 ELSE 0)
      + (IF h.kind = "impl" THEN TyIds(h.self_ty) ELSE 0)

ItemAst(id, first, h, assoc) ==
    [id |-> id,
     generics |-> [lifetimes |-> Numbered(HeaderLifetimes(h.declares), first),
                   where_clause |-> first + IdsOf(HeaderLifetimes(h.declares))],
     ifce |-> IF h.kind = "impl" /\ h.of_trait
              THEN Some([ref_id |-> first + IdsOf(HeaderLifetimes(h.declares)) + 1,
                         parameters |-> AngleBracketed(<<>>, <<>>, 0)])
              ELSE None,
     ty |-> IF h.kind = "impl"
            THEN TyOfShape(h.self_ty, first + HeaderIds(h) - TyIds(h.self_ty))
            ELSE None,
     impl_items |-> assoc,
     items |-> assoc]

\* The header of an item: of a function, a trait, an impl.
Header(kind, of_trait, declares, self_ty, methods, nested) ==
    [kind |-> kind, of_trait |-> of_trait, declares |-> declares, self_ty |-> self_ty,
     methods |-> methods, nested |-> nested]

\* The crates: the header of the item, and the header of the impl in the
\* body of its first method.
NestedHeaders == {None} \cup {Some(Header("impl", t, FALSE, "path", <<4>>, None)) :
                                t \in BOOLEAN}
Crates ==
    {Header("fn", FALSE, FALSE, "path", <<>>, None)}
    \cup {Header("trait", FALSE, declares, "path", <<2>>, None) : declares \in BOOLEAN}
    \cup {Header("impl", t, declares, self_ty, methods, nested) :
            t \in BOOLEAN, declares \in BOOLEAN, self_ty \in {"path", "ref_h"},
            methods \in {<<2>>, <<2, 5>>}, nested \in NestedHeaders}

\* The owners of a crate in the order MiscCollector meets them.
OwnersOf(c) ==
    IF c.kind = "fn" THEN <<1>>
    ELSE IF c.kind = "mod" THEN [k \in 1 .. Len(c.items) |-> c.items[k].id]
    ELSE <<1, 2>> \o (IF c.nested = None THEN <<>> ELSE <<3, 4>>) \o Tail(c.methods)

RECURSIVE allocate_hir_id_counters(_, _)
\* MiscCollector: visit_item, visit_trait_item, visit_impl_item
allocate_hir_id_counters(this, owners) ==
    IF owners = <<>>
    THEN Result(this, None)
    ELSE The({allocate_hir_id_counters(a.this, Tail(owners)) :
                 a \in {allocate_hir_id_counter(this, Head(owners))}})

\* lower_crate up to the walk of ItemLowerer, for the crate c
CollectOwners(c) ==
    /\ Running
    /\ walk.phase = "new"
    /\ \E root \in {lower_node_id(This, CRATE_NODE_ID)} :
       \E checked \in {IF root.this.node_id_to_hir_id[CRATE_NODE_ID + 1] = CRATE_HIR_ID THEN root.this ELSE Panic(root.this)} :   \* debug_assert!
       \E collected \in {allocate_hir_id_counters(checked, OwnersOf(c))} :
           /\ Set(collected.this)
           /\ done' = Step("lower_crate_begin", CRATE_NODE_ID, 0, root.ret, BlankFrame)
    /\ walk' = [walk EXCEPT !.phase = "items", !.crate = Some(c)]
    /\ UNCHANGED frames

\* The item being walked, and its header: the item of the crate, or the
\* impl in the body of its first method.
InItems == Running /\ walk.phase = "items" /\ walk.crate # None
TheCrate == Unwrap(walk.crate)
HeaderOf(id) == IF id = 1 THEN TheCrate ELSE Unwrap(TheCrate.nested)

\* ItemLowerer::visit_item of a function
VisitFn(arg_shape, ret_shape, has_closure) ==
    /\ InItems
    /\ frames = <<>>
    /\ walk.item = 1
    /\ TheCrate.kind = "fn"
    /\ walk.node + FnIds(arg_shape, ret_shape, <<>>, has_closure) <= NumImplAstIds
    /\ \E i \in {FnAst(1, walk.node, arg_shape, ret_shape, <<>>, has_closure)} :
       \E o \in {with_hir_id_owner_enter(This, i.id)} :
       \E hir_item \in {lower_item_fn(o.this, i)} :
       \E ins \in {[hir_item.this EXCEPT !.items = Insert(@, i.id, hir_item.ret)]} :
       \E ox \in {with_hir_id_owner_exit(ins, o.ret.owner, o.ret.counter, o.ret.def_index)} :
       \E pe \in {with_parent_impl_lifetime_defs_enter(ox.this, <<>>)} :
       \E px \in {with_parent_impl_lifetime_defs_exit(pe.this, pe.ret.old_len)} :
           /\ Set(px.this)
           /\ done' = Step("visit_fn", i.id, i.id, hir_item.ret,
                           [BlankFrame EXCEPT !.kind = "visit_item", !.source = "fn",
                                              !.expr = i.id,
                                              !.inputs = <<arg_shape, ret_shape>>,
                                              !.lowered = <<i>>,
                                              !.at_entry = This])
    /\ walk' = [walk EXCEPT !.item = @ + 1,
                            !.node = @ + FnIds(arg_shape, ret_shape, <<>>, has_closure)]
    /\ UNCHANGED frames

\* ItemLowerer::visit_item of an impl or a trait, up to walk_item
VisitItemWithAssocEnter ==
    /\ InItems
    /\ TheCrate.kind \in {"impl", "trait"}
    /\ \/ frames = <<>> /\ walk.item = 1
       \/ /\ frames # <<>>
          /\ Top.kind = "walk_assoc_item"
          /\ Top.expr = 2
          /\ Top.children = 0
          /\ TheCrate.nested # None
    /\ \E id \in {IF frames = <<>> THEN 1 ELSE 3} :
       \E h \in {HeaderOf(id)} :
       \E i \in {ItemAst(id, walk.node, h, h.methods)} :
       \E o \in {with_hir_id_owner_enter(This, id)} :
       \E hir_item \in {IF h.kind = "impl" THEN lower_item_impl(o.this, i)
                        ELSE lower_item_trait(o.this, i)} :
       \E ins \in {[hir_item.this EXCEPT !.items = Insert(@, id, hir_item.ret)]} :
       \E ox \in {with_hir_id_owner_exit(ins, o.ret.owner, o.ret.counter, o.ret.def_index)} :
       \E item_lifetimes \in {ox.this.items[id].generics.lifetimes} :
       \E pe \in {with_parent_impl_lifetime_defs_enter(ox.this, item_lifetimes)} :
       \E te \in {IF h.kind = "impl" THEN with_trait_impl_ref_enter(pe.this, i.ifce)
                  ELSE Result(pe.this, [old |-> pe.this.is_in_trait_impl])} :
           /\ h.kind = "impl" => walk.node + HeaderIds(h) <= NumImplAstIds
           /\ Set(te.this)
           /\ frames' = IF te.this.panicked THEN frames
                        ELSE Append(frames,
                                [BlankFrame EXCEPT !.kind = "visit_item",
                                                   !.source = h.kind, !.expr = id,
                                                   !.lifetimes = item_lifetimes,
                                                   !.old_len = pe.ret.old_len,
                                                   !.prev = te.ret.old,
                                                   !.inputs = h.methods,
                                                   !.at_entry = This])
           /\ done' = Step("visit_item_enter", id, id, hir_item.ret, BlankFrame)
           /\ walk' = [walk EXCEPT !.node = @ + HeaderIds(h)]

\* ItemLowerer::visit_impl_item and visit_trait_item, up to walk_impl_item
\* and walk_trait_item
VisitAssocItem(arg_shape, ret_shape) ==
    /\ InItems
    /\ frames # <<>>
    /\ Top.kind = "visit_item"
    /\ Top.children < Len(Top.inputs)
    /\ \E id \in {Top.inputs[Top.children + 1]} :
       \E nested \in {IF id = 2 /\ TheCrate.nested # None THEN <<3>> ELSE <<>>} :
       \E i \in {FnAst(id, walk.node, arg_shape, ret_shape, nested, FALSE)} :
       \E o \in {with_hir_id_owner_enter(This, id)} :
       \E hir_item \in {IF Top.source = "impl" THEN lower_impl_item(o.this, i)
                        ELSE lower_trait_item(o.this, i)} :
       \E ins \in {IF Top.source = "impl"
                   THEN [hir_item.this EXCEPT !.impl_items = Insert(@, id, hir_item.ret)]
                   ELSE [hir_item.this EXCEPT !.trait_items = Insert(@, id, hir_item.ret)]} :
       \E ox \in {with_hir_id_owner_exit(ins, o.ret.owner, o.ret.counter, o.ret.def_index)} :
           /\ nested # <<>> => arg_shape = "none" /\ ret_shape = "none"
           /\ walk.node + FnIds(arg_shape, ret_shape, nested, FALSE) <= NumImplAstIds
           /\ Set(ox.this)
           /\ frames' = IF ox.this.panicked THEN frames
                        ELSE Append(frames,
                                [BlankFrame EXCEPT !.kind = "walk_assoc_item",
                                                   !.source = Top.source, !.expr = id,
                                                   !.at_entry = This])
           /\ done' = Step("visit_assoc_item", id, id, hir_item.ret,
                           [BlankFrame EXCEPT !.kind = "visit_assoc_item",
                                              !.source = Top.source, !.expr = id,
                                              !.inputs = <<arg_shape, ret_shape>>,
                                              !.lowered = <<i>>,
                                              !.at_entry = This])
           /\ walk' = [walk EXCEPT !.node = @ + FnIds(arg_shape, ret_shape, nested, FALSE)]

\* ItemLowerer::visit_impl_item and visit_trait_item, from the end of
\* walk_impl_item and walk_trait_item on
WalkAssocItemExit ==
    /\ InItems
    /\ frames # <<>>
    /\ Top.kind = "walk_assoc_item"
    /\ Top.expr = 2 /\ TheCrate.nested # None => Top.children = 1
    /\ frames' = Returned(Front(frames), Top.expr)
    /\ done' = Step("walk_assoc_item", Top.expr, Top.expr, None, Top)
    /\ UNCHANGED <<node_id_to_hir_id, item_local_id_counters, current_hir_id_owner,
                   catch_scopes, loop_scopes, is_in_loop_condition, is_generator, bodies,
                   lifetimes_to_define, is_collecting_in_band_lifetimes,
                   in_scope_lifetimes, next_node_id, in_band_lifetimes, is_in_trait_impl,
                   items, trait_items, impl_items, features, diagnostics, walk, panicked>>

\* ItemLowerer::visit_item of an impl or a trait, from the end of walk_item
\* on
VisitItemWithAssocExit ==
    /\ InItems
    /\ frames # <<>>
    /\ Top.kind = "visit_item"
    /\ Top.children = Len(Top.inputs)
    /\ \E tx \in {IF Top.source = "impl" THEN with_trait_impl_ref_exit(This, Top.prev)
                  ELSE Result(This, None)} :
       \E px \in {with_parent_impl_lifetime_defs_exit(tx.this, Top.old_len)} :
           /\ Set(px.this)
           /\ done' = Step("visit_item", Top.expr, Top.expr, None, Top)
    /\ frames' = Returned(Front(frames), Top.expr)
    /\ walk' = IF Len(frames) = 1 THEN [walk EXCEPT !.item = @ + 1] ELSE walk

NextImpl ==
    \/ \E c \in Crates : CollectOwners(c)
    \/ \E arg_shape \in ArgShapes, ret_shape \in RetShapes, has_closure \in BOOLEAN :
          VisitFn(arg_shape, ret_shape, has_closure)
    \/ VisitItemWithAssocEnter
    \/ \E arg_shape \in ArgShapes, ret_shape \in RetShapes : VisitAssocItem(arg_shape, ret_shape)
    \/ WalkAssocItemExit
    \/ VisitItemWithAssocExit
    \/ LowerCrateEnd

SpecImpl == InitImpl /\ [][NextImpl]_vars

(***************************************************************************)
(* Modules, imports and macro definitions.                                 *)
(*                                                                         *)
(* The crate of this specification is one module of NumModItems items:     *)
(* `extern crate` items, macro definitions and imports.  The tree of an    *)
(* import is a single name, a glob or a list of trees, lists standing in   *)
(* lists up to depth 2, and an import is private or `pub(in path)`.  The   *)
(* items have the ids 1 .. NumModItems; the visibility of an item and the  *)
(* trees of its list take the next ids in the order they are written.      *)
(* The paths of imports have no parameters, so that lower_path allocates   *)
(* nothing; parent_def and exported_macros are not part of the model.      *)
(***************************************************************************)
\* hir::Visibility
Inherited == [kind |-> "Inherited", id |-> 0]
Restricted(id) == [kind |-> "Restricted", id |-> id]

\* lower_visibility with no explicit owner
lower_visibility(this, v) ==
    IF v.kind = "Restricted"
    THEN The({Result(n.this, Restricted(n.ret.node_id)) : n \in {lower_node_id(this, v.id)}})
    ELSE Result(this, v)

\* hir::Item
hir_Item(id, hir_id, node, vis) == [id |-> id, hir_id |-> hir_id, node |-> node, vis |-> vis]

\* Mutant: the item of a nested import is built but not stored.
lower_use_tree_nested_item_not_stored(this, new, item, vis) ==
    IF vis.kind = "Restricted"
    THEN Result(next_id(this).this, None)
    ELSE Result(this, None)

\* lower_use_tree, UseTreeKind::Nested: the closure given to
\* with_hir_id_owner(new_id); `new` is (new_id, new_hir_id)
lower_use_tree_nested_item(this, new, item, vis) ==
    The({Result([v.this EXCEPT !.items = Insert(@, new.node_id,
                                                hir_Item(new.node_id, new.hir_id, item, v.ret))],
                None) :
            v \in {IF vis.kind = "Restricted"
                   THEN The({Result(n.this, Restricted(n.ret.node_id)) : n \in {next_id(this)}})
                   ELSE Result(this, vis)}})

RECURSIVE lower_use_tree(_, _, _, _)
RECURSIVE lower_use_tree_nested(_, _, _)
\* lower_use_tree; ret is the hir::Item_ and the visibility left in `vis`
lower_use_tree(this, tree, id, vis) ==
    IF tree.kind = "Simple"
    THEN Result(this, [node |-> [kind |-> "ItemUse", use_kind |-> "Single", id |-> id],
                       vis |-> vis])
    ELSE IF tree.kind = "Glob"
    THEN Result(this, [node |-> [kind |-> "ItemUse", use_kind |-> "Glob", id |-> id],
                       vis |-> vis])
    ELSE The({Result(l.this, [node |-> [kind |-> "ItemUse", use_kind |-> "ListStem", id |-> id],
                              vis |-> Inherited]) :
                 l \in {lower_use_tree_nested(this, tree.trees, vis)}})

\* lower_use_tree, UseTreeKind::Nested: `for &(ref use_tree, id) in trees`
lower_use_tree_nested(this, trees, vis) ==
    IF trees = <<>> \/ this.panicked
    THEN Result(this, None)
    ELSE The({The({The({The({The({The({
             lower_use_tree_nested(x.this, Tail(trees), vis) :
                 x \in {IF o.this.panicked THEN o
                        ELSE with_hir_id_owner_exit(c.this, o.ret.owner, o.ret.counter,
                                                    o.ret.def_index)}}) :
                 c \in {IF o.this.panicked THEN o
                        ELSE lower_use_tree_nested_item(o.this, n.ret, item.ret.node,
                                                        item.ret.vis)}}) :
                 o \in {with_hir_id_owner_enter(item.this, n.ret.node_id)}}) :
                 item \in {lower_use_tree(n.this, Head(trees).tree, n.ret.node_id, vis)}}) :
                 n \in {lower_node_id(a.this, Head(trees).id)}}) :
                 a \in {allocate_hir_id_counter(this, Head(trees).id)}})

\* lower_item_kind of ItemKind::ExternCrate and ItemKind::Use
lower_item_kind(this, id, vis, i) ==
    IF i.kind = "Use"
    THEN lower_use_tree(this, i.tree, id, vis)
    ELSE Result(this, [node |-> [kind |-> "ItemExternCrate"], vis |-> vis])

lower_item(this, i) ==
    The({IF i.kind = "MacroDef"
         THEN Result(v.this, None)
         ELSE The({The({Result(n.this, Some(hir_Item(n.ret.node_id, n.ret.hir_id,
                                                      k.ret.node, k.ret.vis))) :
                           n \in {lower_node_id(k.this, i.id)}}) :
                      k \in {lower_item_kind(v.this, i.id, v.ret, i)}}) :
            v \in {lower_visibility(this, i.vis)}})

RECURSIVE lower_item_id_use_tree(_)
RECURSIVE lower_item_id_use_trees(_)
\* lower_item_id_use_tree; ret is what the call pushes to `vec`
lower_item_id_use_tree(tree) ==
    IF tree.kind = "Nested"
    THEN lower_item_id_use_trees(tree.trees)
    ELSE <<>>

\* lower_item_id_use_tree: `for &(ref nested, id) in nested_vec`
lower_item_id_use_trees(nested_vec) ==
    IF nested_vec = <<>>
    THEN <<>>
    ELSE <<[id |-> Head(nested_vec).id]>> \o lower_item_id_use_tree(Head(nested_vec).tree)
         \o lower_item_id_use_trees(Tail(nested_vec))

lower_item_id(i) ==
    IF i.kind = "Use"
    THEN <<[id |-> i.id]>> \o lower_item_id_use_tree(i.tree)
    ELSE IF i.kind = "MacroDef"
    THEN <<>>
    ELSE <<[id |-> i.id]>>

RECURSIVE lower_item_ids(_)
\* lower_mod: `m.items.iter().flat_map(|x| self.lower_item_id(x)).collect()`
lower_item_ids(m_items) ==
    IF m_items = <<>>
    THEN <<>>
    ELSE lower_item_id(Head(m_items)) \o lower_item_ids(Tail(m_items))

lower_mod(m) == [item_ids |-> lower_item_ids(m.items)]

\* The items of the module: `extern crate a;`, `macro m() {}`, `use a::b;`,
\* `use a::*;`, `use a::{b, c::*};` and `use a::{b, c::{d, e::*}};`, each
\* private or `pub(in path)`.
ModItemKinds == {"extern_crate", "macro", "use_simple", "use_glob", "use_list", "use_list_list"}
ModItemShapes == [kind : ModItemKinds, restricted : BOOLEAN]

UseTree(kind, trees) == [kind |-> kind, trees |-> trees]

\* The tree of an import whose first nested tree has the id `first`.
UseTreeOf(kind, first) ==
    IF kind = "use_simple" THEN UseTree("Simple", <<>>)
    ELSE IF kind = "use_glob" THEN UseTree("Glob", <<>>)
    ELSE IF kind = "use_list"
    THEN UseTree("Nested", <<[tree |-> UseTree("Simple", <<>>), id |-> first],
                             [tree |-> UseTree("Glob", <<>>), id |-> first + 1]>>)
    ELSE IF kind = "use_list_list"
    THEN UseTree("Nested",
                 <<[tree |-> UseTree("Simple", <<>>), id |-> first],
                   [tree |-> UseTree("Nested",
                                     <<[tree |-> UseTree("Simple", <<>>), id |-> first + 2],
                                       [tree |-> UseTree("Glob", <<>>), id |-> first + 3]>>),
                    id |-> first + 1]>>)
    ELSE UseTree("None", <<>>)

\* The number of ids an item of this shape takes besides its own.
ModItemIds(shape) ==
    (IF shape.restricted THEN 1 ELSE 0)
    + (IF shape.kind = "use_list" THEN 2 ELSE IF shape.kind = "use_list_list" THEN 4 ELSE 0)

\* The ast::Item of this shape with the id `id`, whose nodes take the ids
\* from `first` on.
ModItemAst(id, first, shape) ==
    [id |-> id,
     kind |-> IF shape.kind = "extern_crate" THEN "ExternCrate"
              ELSE IF shape.kind = "macro" THEN "MacroDef" ELSE "Use",
     vis |-> IF shape.restricted THEN Restricted(first) ELSE Inherited,
     tree |-> UseTreeOf(shape.kind, first + (IF shape.restricted THEN 1 ELSE 0))]

RECURSIVE ModItems(_, _, _)
ModItems(shapes, id, first) ==
    IF shapes = <<>>
    THEN <<>>
    ELSE <<ModItemAst(id, first, Head(shapes))>>
         \o ModItems(Tail(shapes), id + 1, first + ModItemIds(Head(shapes)))

ModCrates ==
    {[kind |-> "mod", items |-> ModItems(shapes, 1, 1 + NumModItems)] :
        shapes \in [1 .. NumModItems -> ModItemShapes]}

InitMod == InitSession(NumModAstIds, FALSE, ImplTraitFeatures, 1 + NumModItems)

\* ItemLowerer::visit_item of an item of the module
VisitModItem ==
    /\ InItems
    /\ frames = <<>>
    /\ TheCrate.kind = "mod"
    /\ walk.item <= Len(TheCrate.items)
    /\ \E i \in {TheCrate.items[walk.item]} :
       \E o \in {with_hir_id_owner_enter(This, i.id)} :
       \E l \in {lower_item(o.this, i)} :
       \E ins \in {IF l.ret # None
                   THEN [l.this EXCEPT !.items = Insert(@, i.id, Unwrap(l.ret))]
                   ELSE l.this} :
       \E ox \in {with_hir_id_owner_exit(ins, o.ret.owner, o.ret.counter, o.ret.def_index)} :
       \E pe \in {IF l.ret # None
                  THEN with_parent_impl_lifetime_defs_enter(ox.this, <<>>)
                  ELSE Result(ox.this, [old_len |-> 0])} :
       \E px \in {IF l.ret # None
                  THEN with_parent_impl_lifetime_defs_exit(pe.this, pe.ret.old_len)
                  ELSE pe} :
           /\ Set(px.this)
           /\ done' = Step("visit_mod_item", i.id, i.id, l.ret,
                           [BlankFrame EXCEPT !.kind = "visit_item", !.source = i.kind,
                                              !.expr = i.id, !.lowered = <<i>>,
                                              !.at_entry = This])
    /\ walk' = [walk EXCEPT !.item = @ + 1]
    /\ UNCHANGED frames

\* lower_crate after the walk of ItemLowerer: lower_mod(&c.module)
LowerCrateModule ==
    /\ InItems
    /\ frames = <<>>
    /\ TheCrate.kind = "mod"
    /\ walk.item > Len(TheCrate.items)
    /\ walk' = [walk EXCEPT !.phase = "done"]
    /\ done' = Step("lower_crate", CRATE_NODE_ID, 0,
                    [module |-> lower_mod(TheCrate), body_ids |-> DOMAIN bodies], BlankFrame)
    /\ UNCHANGED <<node_id_to_hir_id, item_local_id_counters, current_hir_id_owner,
                   catch_scopes, loop_scopes, is_in_loop_condition, is_generator, bodies,
                   lifetimes_to_define, is_collecting_in_band_lifetimes,
                   in_scope_lifetimes, next_node_id, in_band_lifetimes, is_in_trait_impl,
                   items, trait_items, impl_items, features, diagnostics, frames, panicked>>

NextMod ==
    \/ \E c \in ModCrates : CollectOwners(c)
    \/ VisitModItem
    \/ LowerCrateModule

SpecMod == InitMod /\ [][NextMod]_vars

\* The crate is the module of SpecMod.
TheCrateIsModule == walk.crate # None /\ TheCrate.kind = "mod"

(***************************************************************************)
(* Properties of the identity allocator.                                   *)
(***************************************************************************)
EnsureOps == {"lower_node_id", "lower_node_id_with_owner", "next_id"}

\* The ids of `table` whose identity lies in the namespace of `owner`.
OwnedBy(table, owner) ==
    {id \in Mapped(table) : table[id + 1].owner = opt_def_index(owner)}

\* C1: any two distinct mapped (non-sentinel) source ids have different
\* identities (owner, local id), whichever way each was allocated.
C1_NoAliasing ==
    \A a \in Mapped(node_id_to_hir_id), b \in Mapped(node_id_to_hir_id) :
        a # b => node_id_to_hir_id[a + 1] # node_id_to_hir_id[b + 1]

\* An owner holds three ids: itself, one taken from the owner stack and one
\* taken afterwards from its stored counter.
C1_Witness ==
    /\ ~panicked
    /\ done.op = "lower_node_id_with_owner"
    /\ done.ret.hir_id = HirId(opt_def_index(done.owner), 2)
    /\ done.owner \in OwnerIds
    /\ Cardinality(OwnedBy(node_id_to_hir_id, done.owner)) = 3

\* C2: a stored identity never changes, and lowering an id that is mapped
\* returns the stored identity (so two calls for one id return the same),
\* whatever was lowered or whichever owner became active in between; a
\* call that maps an id returns what it stored.
C2_EnsureIdempotent ==
    [][/\ \A x \in Mapped(node_id_to_hir_id) :
             /\ x \in Mapped(node_id_to_hir_id')
             /\ node_id_to_hir_id'[x + 1] = node_id_to_hir_id[x + 1]
             /\ (done'.op \in EnsureOps /\ done'.id = x) =>
                   /\ ~panicked'
                   /\ done'.ret = LoweredNodeId(x, node_id_to_hir_id[x + 1])
       /\ (done'.op \in EnsureOps /\ done'.id # DUMMY_NODE_ID /\ ~panicked') =>
             done'.ret = LoweredNodeId(done'.id, node_id_to_hir_id'[done'.id + 1])
      ]_vars

\* A call for a mapped id returned an identity of another owner than the
\* active one: the identity stored by an earlier call.
C2_Witness ==
    /\ ~panicked
    /\ done.op = "lower_node_id"
    /\ done.id \in PlainIds
    /\ done.ret.hir_id.owner # Last(current_hir_id_owner)[1]
    /\ done.ret.hir_id.local_id > 0

\* C3: when with_hir_id_owner(o, f) returns, the counter stored for o is
\* at least the counter saved at entry and is the saved counter plus the
\* number of ids mapped into o's namespace while f ran.
C3_CounterAdvance ==
    (done.op = "with_hir_id_owner" /\ ~panicked) =>
        LET fr == done.frame
            o == fr.owner
            allocated == OwnedBy(node_id_to_hir_id, o)
                            \ OwnedBy(fr.at_entry.node_id_to_hir_id, o)
        IN  /\ item_local_id_counters[o] >= fr.counter
            /\ item_local_id_counters[o] = fr.counter + Cardinality(allocated)

\* A call under which one id was allocated for o, one for a nested owner,
\* and which lowered an id that was mapped already.
C3_Witness ==
    /\ ~panicked
    /\ done.op = "with_hir_id_owner"
    /\ LET fr == done.frame
           before == fr.at_entry.node_id_to_hir_id
       IN  /\ item_local_id_counters[fr.owner] = fr.counter + 1
           /\ \E x \in Mapped(node_id_to_hir_id) \ Mapped(before) :
                 node_id_to_hir_id[x + 1].owner # opt_def_index(fr.owner)

\* C8: allocate_hir_id_counter(id) aborts the pass when id is registered
\* already; otherwise id is registered, maps to (definition of id, 0) and
\* its counter is 1.
C8_BeginOwner ==
    [][done'.op = "allocate_hir_id_counter" =>
          LET id == done'.id
          IN  IF id \in DOMAIN item_local_id_counters
              THEN panicked'
              ELSE /\ ~panicked'
                   /\ id \in DOMAIN item_local_id_counters'
                   /\ item_local_id_counters'[id] = 1
                   /\ node_id_to_hir_id'[id + 1] = HirId(opt_def_index(id), 0)
      ]_vars

\* An owner was registered while another owner's subtree was being lowered
\* (a nested import), after ids beyond it were mapped.
C8_Witness ==
    /\ ~panicked
    /\ done.op = "allocate_hir_id_counter"
    /\ Len(current_hir_id_owner) > 1
    /\ Len(node_id_to_hir_id) > done.id + 1
    /\ node_id_to_hir_id[done.id + 1] = HirId(opt_def_index(done.id), 0)

\* The context the end of with_hir_id_owner must reject, made from the
\* current one: another owner on top of the stack, a counter below the
\* saved one, no sentinel in the map.
WrongOwnerOnTop(this) ==
    [this EXCEPT !.current_hir_id_owner[Len(this.current_hir_id_owner)][1] = CRATE_DEF_INDEX]
CounterBelowSaved(this, counter) ==
    [this EXCEPT !.current_hir_id_owner[Len(this.current_hir_id_owner)][2] = counter - 1]
SentinelOverwritten(this, owner) ==
    [this EXCEPT !.item_local_id_counters[owner] = 0]

C10_SentinelNotCached ==
    /\ [](DUMMY_NODE_ID \notin Mapped(node_id_to_hir_id)
          /\ Len(node_id_to_hir_id) <= DUMMY_NODE_ID)
    /\ [][(done'.op \in EnsureOps /\ done'.id = DUMMY_NODE_ID) =>
             /\ done'.ret = LoweredNodeId(DUMMY_NODE_ID, DUMMY_HIR_ID)
             /\ UNCHANGED <<node_id_to_hir_id, item_local_id_counters,
                            current_hir_id_owner, next_node_id, panicked>>
         ]_vars

\* The sentinel was lowered under a locked owner, with ids mapped before.
C10_Witness ==
    /\ ~panicked
    /\ done.op = "lower_node_id"
    /\ done.id = DUMMY_NODE_ID
    /\ done.ret.hir_id = DUMMY_HIR_ID
    /\ Len(current_hir_id_owner) > 1
    /\ Mapped(node_id_to_hir_id) # {}

(***************************************************************************)
(* Properties of the scope context.                                        *)
(***************************************************************************)
ScopedHelpers == {"with_loop_scope", "with_catch_scope", "with_loop_condition_scope",
                  "with_new_scopes"}

\* The loop-target stack, the catch-target stack and the loop-condition flag.
Scopes(this) == <<this.loop_scopes, this.catch_scopes, this.is_in_loop_condition>>

\* The index of the innermost running call of one of `kinds`, or 0.
Innermost(stack, kinds) ==
    IF \E i \in 1 .. Len(stack) : stack[i].kind \in kinds
    THEN CHOOSE i \in 1 .. Len(stack) :
            /\ stack[i].kind \in kinds
            /\ \A j \in (i + 1) .. Len(stack) : stack[j].kind \notin kinds
    ELSE 0

\* The ids given to the running calls of `kind` that are inside the
\* innermost running call of one of `boundaries`, outermost first.
TargetsWithin(stack, kind, boundaries) ==
    LET from == Innermost(stack, boundaries)
        inside == SubSeq(stack, from + 1, Len(stack))
        calls == SelectSeq(inside, LAMBDA fr : fr.kind = kind)
    IN  [i \in 1 .. Len(calls) |-> calls[i].id]

C5_BodiesStartWithEmptyScopes ==
    /\ \A i \in 1 .. Len(frames) :
          frames[i].kind = "lower_body" =>
              /\ frames[i].at_entry.loop_scopes = <<>>
              /\ frames[i].at_entry.catch_scopes = <<>>
    /\ (done.op \in {"break", "continue"} /\ done.ret.target_id.id # None) =>
          Contains(TargetsWithin(frames, "with_loop_scope", {"lower_body"}),
                   Unwrap(done.ret.target_id.id))
    /\ (done.op = "try" /\ done.ret.err_arm.exit = "ExprBreak") =>
          Contains(TargetsWithin(frames, "with_catch_scope", {"lower_body"}),
                   Unwrap(done.ret.err_arm.target_id.id))
    /\ (done.frame.kind = "lower_body" /\ ~panicked) =>
          Scopes(This) = Scopes(done.frame.at_entry)

\* C6: the error arm of a lowered `?` is a return when the catch-target
\* stack is empty and else a break to the block on top of it, which is the
\* block of the innermost catch expression being lowered in the same body;
\* the block a catch expression produces has the id that was pushed for it
\* and is marked as targeted by break, and that id is on top of the stack
\* while the block's own expression is lowered.
C6_TryExitTarget ==
    ~panicked =>
        /\ done.op = "try" =>
              LET err_arm == done.ret.err_arm
                  catches == TargetsWithin(frames, "with_catch_scope", {"with_new_scopes"})
              IN  /\ catch_scopes = <<>> =>
                        /\ err_arm.exit = "ExprRet"
                        /\ catches = <<>>
                  /\ catch_scopes # <<>> =>
                        /\ err_arm.exit = "ExprBreak"
                        /\ err_arm.target_id = ScopeTarget_Block(Last(catch_scopes))
                        /\ Last(catch_scopes) = Last(catches)
                  /\ catch_scopes = done.frame.at_entry.catch_scopes
        /\ done.op = "with_catch_scope" =>
              /\ done.ret.block = [id |-> done.frame.id, targeted_by_break |-> TRUE]
              /\ catch_scopes = done.frame.at_entry.catch_scopes
        /\ (Len(frames) > 0 /\ Last(frames).kind = "with_catch_scope") =>
              /\ catch_scopes # <<>>
              /\ Last(catch_scopes) = Last(frames).id
              /\ Last(frames).id = Last(frames).block

\* A `?` in a catch block in a catch block: the break goes to the inner one.
C6_Witness ==
    /\ ~panicked
    /\ done.op = "try"
    /\ Len(catch_scopes) = 2
    /\ catch_scopes[1] # catch_scopes[2]
    /\ done.ret.err_arm.target_id = ScopeTarget_Block(catch_scopes[2])

(***************************************************************************)
(* Properties of the in-band lifetimes.                                    *)
(***************************************************************************)
RECURSIVE FirstUses(_)
\* The names of a list in the order of their first places in it.
FirstUses(names) ==
    IF names = <<>>
    THEN <<>>
    ELSE LET front == FirstUses(Front(names))
         IN  IF Contains(front, Last(names)) THEN front ELSE Append(front, Last(names))

NamesOf(uses) == [i \in 1 .. Len(uses) |-> uses[i].name]

\* The reference names a lifetime that no parameter list declares.
Undeclared(use, explicit) ==
    /\ use.name \notin {UnderscoreName, StaticName}
    /\ ~Contains(explicit, use.name)
    /\ ~use.bound

\* The references of the signature in the order of its text: the bounds of
\* the lifetime parameters, those of the type parameters, the arguments,
\* the where clause.
InTextOrder(uses) ==
    SelectSeq(uses, LAMBDA u : u.part = "lifetimes")
        \o SelectSeq(uses, LAMBDA u : u.part = "ty_params")
        \o SelectSeq(uses, LAMBDA u : u.part = "decl")
        \o SelectSeq(uses, LAMBDA u : u.part = "where")

\* The lifetimes of the generics returned are the explicit parameters in
\* their order followed by one in-band parameter with a fresh id for each
\* of `expected`, in that order.
ExplicitThenInBand(result, lifetimes, expected) ==
    /\ Len(result) = Len(lifetimes) + Len(expected)
    /\ \A i \in 1 .. Len(lifetimes) :
          /\ result[i].name = lifetimes[i].lifetime.name
          /\ result[i].id = lifetimes[i].lifetime.id
          /\ ~result[i].in_band
    /\ \A j \in 1 .. Len(expected) :
          LET def == result[Len(lifetimes) + j]
          IN  /\ def.name = expected[j]
              /\ def.in_band
              /\ def.id >= NumRegionAstIds
              /\ def.id \in Mapped(node_id_to_hir_id)
    /\ \A i \in 1 .. Len(result), j \in 1 .. Len(result) :
          i # j => result[i].id # result[j].id

RptrOf(types) == IF types[1].node = "TyBareFn" THEN types[1].decl.inputs[1] ELSE types[1]

\* C15: a reference type without region is lowered with the implicit
\* placeholder, whose identity is a fresh one that no node had before; the
\* step is never an error, never names the region and leaves the pending
\* list as it is, whatever the collection flag, the visible names and the
\* pending list are.
C15_ElidedReference ==
    [][done'.op = "lower_ty_elided" /\ vars' # vars =>
          LET lifetime == RptrOf(done'.ret).lifetime
          IN  /\ panicked' = panicked
              /\ lifetime.lifetime_name = LifetimeName_Implicit
              /\ lifetime.id = next_node_id
              /\ lifetime.id \notin Mapped(node_id_to_hir_id)
              /\ lifetime.id \in Mapped(node_id_to_hir_id')
              /\ lifetimes_to_define' = lifetimes_to_define
              /\ in_scope_lifetimes' = in_scope_lifetimes
              /\ is_collecting_in_band_lifetimes' = is_collecting_in_band_lifetimes]_vars

\* A reference without region was lowered while the pass collected, a name
\* was pending and another was visible.
C15_Witness ==
    /\ ~panicked
    /\ done.op = "lower_ty_elided"
    /\ is_collecting_in_band_lifetimes
    /\ lifetimes_to_define # <<>>
    /\ Len(frames) > 0
    /\ Top.lifetimes # <<>>
    /\ RptrOf(done.ret).lifetime.lifetime_name = LifetimeName_Implicit

\* The definitions are one in-band definition for each entry of `pending`,
\* in its order.
InBandDefsOf(defs, pending) ==
    /\ Len(defs) = Len(pending)
    /\ \A j \in 1 .. Len(pending) :
          /\ defs[j].name = pending[j][2]
          /\ defs[j].span = pending[j][1]
          /\ defs[j].in_band

\* C16: collect_in_band_lifetime_defs refuses to start while the pass
\* collects or a name is pending; otherwise it starts and collects exactly
\* if the feature is on.  When it returns the flag is off and the pending
\* list is empty, and it has returned one in-band definition for each
\* pending entry in the order of the queue if it was given an owner, and
\* none if it was not.
C16_CollectInBand ==
    [][/\ (~panicked /\ (is_collecting_in_band_lifetimes \/ lifetimes_to_define # <<>>)) =>
              collect_in_band_lifetime_defs_enter(This).this.panicked
       /\ (~panicked /\ ~is_collecting_in_band_lifetimes /\ lifetimes_to_define = <<>>) =>
              \E c \in {collect_in_band_lifetime_defs_enter(This)} :
                  /\ ~c.this.panicked
                  /\ c.this.is_collecting_in_band_lifetimes = in_band_lifetimes
       /\ ~panicked =>
              /\ \E c \in {collect_in_band_lifetime_defs_exit(This, None)} :
                     /\ c.ret = <<>>
                     /\ ~c.this.is_collecting_in_band_lifetimes
                     /\ c.this.lifetimes_to_define = <<>>
              /\ \E c \in {collect_in_band_lifetime_defs_exit(This, Some(0))} :
                     /\ InBandDefsOf(c.ret, lifetimes_to_define)
                     /\ ~c.this.is_collecting_in_band_lifetimes
                     /\ c.this.lifetimes_to_define = <<>>
       /\ (done'.op = "signature_enter" /\ vars' # vars /\ ~panicked') =>
              /\ ~is_collecting_in_band_lifetimes
              /\ lifetimes_to_define = <<>>
              /\ is_collecting_in_band_lifetimes' = in_band_lifetimes
              /\ lifetimes_to_define' = <<>>
       /\ (done'.op = "add_in_band_lifetime_defs" /\ vars' # vars /\ ~panicked') =>
              /\ InBandDefsOf(SubSeq(done'.ret.lifetimes, Len(done'.frame.lifetimes) + 1,
                                     Len(done'.ret.lifetimes)),
                              lifetimes_to_define)
              /\ ~is_collecting_in_band_lifetimes'
              /\ lifetimes_to_define' = <<>>]_vars

\* The collection of a signature returned with two names pending.
C16_Witness ==
    /\ ~panicked
    /\ done.op = "add_in_band_lifetime_defs"
    /\ Len(done.ret.lifetimes) = Len(done.frame.lifetimes) + 2
    /\ done.ret.lifetimes[Len(done.frame.lifetimes) + 1].in_band
    /\ ~is_collecting_in_band_lifetimes
    /\ lifetimes_to_define = <<>>

\* The steps that resolve one reference to a region, and the region each
\* returned.
RegionSteps == {"lower_ty_param", "lower_where_predicate", "lower_ty"}

RegionOfBound(bound) ==
    IF bound.kind = "Trait"
    THEN bound.poly_trait_ref.trait_ref.lifetimes[1]
    ELSE bound.lifetime

ResolvedRegion(step) ==
    IF step.op = "lower_ty"
    THEN RptrOf(step.ret).lifetime
    ELSE RegionOfBound(step.ret.bounds[1])

PendingNames(pending) == [i \in 1 .. Len(pending) |-> pending[i][2]]

\* C17: resolving a reference to a region appends (span, name) to the
\* pending list exactly when the name is a name proper, the pass collects,
\* the name is not visible at that moment (declared neither by the item
\* nor by a binder around the reference) and not pending already.  A
\* reference to `'static` or `'_` is never queued and is returned as the
\* static marker or the unnamed placeholder; a named one is returned as a
\* named region.  The pending list never holds a name twice.
C17_ResolveRegion ==
    [][/\ (done'.op \in RegionSteps /\ vars' # vars /\ ~panicked') =>
              \E u \in {walk'.uses[Len(walk'.uses)]} :
              \E l \in {ResolvedRegion(done')} :
                  /\ lifetimes_to_define' =
                        IF /\ u.name \notin {StaticName, UnderscoreName}
                           /\ is_collecting_in_band_lifetimes
                           /\ ~Contains(in_scope_lifetimes, u.name)
                           /\ ~u.bound
                           /\ ~Contains(PendingNames(lifetimes_to_define), u.name)
                        THEN Append(lifetimes_to_define, <<l.id, u.name>>)
                        ELSE lifetimes_to_define
                  /\ l.lifetime_name =
                        CASE u.name = StaticName -> LifetimeName_Static
                          [] u.name = UnderscoreName -> LifetimeName_Underscore
                          [] OTHER -> LifetimeName_Name(u.name)
                  /\ l.id \in Mapped(node_id_to_hir_id')
       /\ \A i \in 1 .. Len(lifetimes_to_define') :
              /\ lifetimes_to_define'[i][2] \notin {StaticName, UnderscoreName}
              /\ \A j \in 1 .. Len(lifetimes_to_define') :
                     lifetimes_to_define'[i][2] = lifetimes_to_define'[j][2] => i = j]_vars

\* Two names are pending after a name was referred to twice and `'static`
\* and `'_` once each.
C17_Witness ==
    /\ ~panicked
    /\ done.op \in RegionSteps
    /\ Len(lifetimes_to_define) = 2
    /\ \E i \in 1 .. Len(walk.uses), j \in 1 .. Len(walk.uses) :
          /\ i < j
          /\ walk.uses[i].name = walk.uses[j].name
          /\ walk.uses[i].name = lifetimes_to_define[1][2]
          /\ ~walk.uses[j].bound
    /\ \E i \in 1 .. Len(walk.uses) : walk.uses[i].name = StaticName
    /\ \E i \in 1 .. Len(walk.uses) : walk.uses[i].name = UnderscoreName

\* The names the binder around the reference of a step declares: `for<..>`
\* of a trait bound, of a where predicate or of a type of function pointers.
BinderOf(step) ==
    LET defs == IF step.op = "lower_ty"
                THEN IF step.ret[1].node = "TyBareFn" THEN step.ret[1].lifetimes ELSE <<>>
                ELSE IF step.op = "lower_where_predicate"
                THEN step.ret.bound_lifetimes
                ELSE IF step.ret.bounds[1].kind = "Trait"
                THEN step.ret.bounds[1].poly_trait_ref.bound_lifetimes
                ELSE <<>>
    IN  [i \in 1 .. Len(defs) |-> defs[i].name]

\* C18: the names a binder declares are visible while what it binds is
\* lowered and no longer: the visible list after each part of a signature
\* is the list before it, which is the names of the explicit parameters of
\* the item.  A reference to a name of the binder around it is not
\* collected; a reference to the same name outside the binder is, whatever
\* binders came before.
C18_VisibleRegions ==
    [][/\ (Len(frames') > 0 /\ frames'[Len(frames')].kind = "add_in_band_lifetime_defs"
           /\ ~panicked') =>
              in_scope_lifetimes' = Names(frames'[Len(frames')].lifetimes)
       /\ (frames' = <<>> /\ ~panicked') => in_scope_lifetimes' = <<>>
       /\ ~panicked =>
              \A names \in Binders :
                  \E s \in {with_in_scope_lifetime_defs_enter(This, names)} :
                      /\ s.this.in_scope_lifetimes = in_scope_lifetimes \o names
                      /\ with_in_scope_lifetime_defs_exit(s.this, s.ret.old_len).this = This
       /\ (done'.op \in RegionSteps /\ vars' # vars /\ ~panicked') =>
              \E u \in {walk'.uses[Len(walk'.uses)]} :
              \E binder \in {BinderOf(done')} :
                  /\ in_scope_lifetimes' = in_scope_lifetimes
                  /\ u.bound = Contains(binder, u.name)
                  /\ Contains(binder, u.name) => lifetimes_to_define' = lifetimes_to_define
                  /\ (/\ ~Contains(binder, u.name)
                      /\ u.name \notin {StaticName, UnderscoreName}
                      /\ ~Contains(in_scope_lifetimes, u.name)
                      /\ is_collecting_in_band_lifetimes) =>
                         Contains(PendingNames(lifetimes_to_define'), u.name)]_vars

\* A name was referred to under a binder that declares it, in a trait
\* bound, and was not collected; then outside a binder, and was.
C18_Witness ==
    /\ ~panicked
    /\ done.op \in RegionSteps
    /\ Len(walk.uses) = 2
    /\ walk.uses[1].bound
    /\ walk.uses[1].part = "ty_params"
    /\ ~walk.uses[2].bound
    /\ walk.uses[2].name = walk.uses[1].name
    /\ PendingNames(lifetimes_to_define) = <<walk.uses[1].name>>
    /\ in_scope_lifetimes = Names(Top.lifetimes)

(***************************************************************************)
(* Properties of the lifetimes an `impl Trait` captures.                   *)
(***************************************************************************)
\* The names a binder around the region of a bound declares.
BindersOf(shape) == shape.binder \o shape.fn_binder

\* The named regions of the bounds that stand outside a binder of their
\* name, in the order of the bounds.
RECURSIVE FreeNames(_)
FreeNames(shapes) ==
    IF shapes = <<>>
    THEN <<>>
    ELSE (IF /\ Head(shapes).region # None
             /\ Unwrap(Head(shapes).region) \notin {StaticName, UnderscoreName}
             /\ ~Contains(BindersOf(Head(shapes)), Unwrap(Head(shapes).region))
          THEN <<Unwrap(Head(shapes).region)>>
          ELSE <<>>) \o FreeNames(Tail(shapes))

\* The lifetimes of a list that are names, as LifetimeName.
NamedOf(lifetimes) ==
    SelectSeq([i \in 1 .. Len(lifetimes) |-> lifetimes[i].lifetime_name],
              LAMBDA n : n.kind = "Name")

\* The ids of the two lists are fresh and differ from each other.
FreshIds(lifetimes, defs) ==
    LET ids == [i \in 1 .. Len(lifetimes) |-> lifetimes[i].id]
                   \o [i \in 1 .. Len(defs) |-> defs[i].id]
    IN  \A i \in 1 .. Len(ids) :
            /\ ids[i] >= NumRegionAstIds
            /\ \A j \in 1 .. Len(ids) : ids[i] = ids[j] => i = j

\* The two lists have the same length and name the same regions in the
\* same order.
LockStep(lifetimes, defs) ==
    /\ Len(lifetimes) = Len(defs)
    /\ \A i \in 1 .. Len(lifetimes) : lifetimes[i].lifetime_name = defs[i].lifetime_name

\* C19: the lifetimes an `impl Trait` in return position captures are the
\* named regions of its bounds that stand outside a binder of their name,
\* each once, in the order of their first occurrences; the list of uses and
\* the list of definitions have the same length and the same names in the
\* same order, every entry under a fresh id of its own; `'static` and a
\* region that stands only under a binder of its name are not captured;
\* and no name is bound any more when the walk has left a bound.
C19_CapturedLifetimes ==
    /\ (done.op = "lower_ty_impl_trait" /\ ~panicked) =>
          /\ NamedOf(done.ret.lifetimes) =
                [i \in 1 .. Len(FirstUses(FreeNames(done.frame.inputs))) |->
                    LifetimeName_Name(FirstUses(FreeNames(done.frame.inputs))[i])]
          /\ LockStep(done.ret.lifetimes, done.ret.generics.lifetimes)
          /\ FreshIds(done.ret.lifetimes, done.ret.generics.lifetimes)
          /\ \A i \in 1 .. Len(done.ret.lifetimes) :
                done.ret.lifetimes[i].lifetime_name # LifetimeName_Static
    /\ (~panicked /\ Len(frames) > 0 /\ Top.kind = "lifetimes_from_impl_trait_bounds") =>
          Top.collector.currently_bound_lifetimes = <<>>

\* The elided regions of the bounds that stand neither in parentheses nor
\* in a type of function pointers.
ElidedOutside(shapes) ==
    {i \in 1 .. Len(shapes) :
        /\ shapes[i].region \in {None, Some(UnderscoreName)}
        /\ shapes[i].form \notin {"Paren", "BareFn"}}

\* C20: the lifetimes left out and the `'_` of the bounds of an `impl Trait`
\* in return position are captured once for all of them, as `'_`, if one of
\* them stands outside parentheses and outside a type of function pointers,
\* and not at all otherwise; those inside are skipped, and the collector
\* takes elided lifetimes again once it has left such a bound.
C20_ElidedCapturedOnce ==
    /\ (done.op = "lower_ty_impl_trait" /\ ~panicked) =>
          /\ Len(SelectSeq(done.ret.lifetimes,
                           LAMBDA l : l.lifetime_name = LifetimeName_Underscore))
                = IF ElidedOutside(done.frame.inputs) = {} THEN 0 ELSE 1
          /\ Len(SelectSeq(done.ret.generics.lifetimes,
                           LAMBDA l : l.lifetime_name = LifetimeName_Underscore))
                = IF ElidedOutside(done.frame.inputs) = {} THEN 0 ELSE 1
          /\ \A i \in 1 .. Len(done.ret.lifetimes) :
                done.ret.lifetimes[i].lifetime_name # LifetimeName_Implicit
    /\ (~panicked /\ Len(frames) > 0 /\ Top.kind = "lifetimes_from_impl_trait_bounds") =>
          Top.collector.collect_elided_lifetimes

\* `impl Fn(&T) + Tr<&T>`: the lifetime left out in the parentheses was
\* skipped, the one after it captured.
C20_Witness ==
    /\ ~panicked
    /\ done.op = "lower_ty_impl_trait"
    /\ Len(done.frame.inputs) = 2
    /\ done.frame.inputs[1].form = "Paren"
    /\ done.frame.inputs[1].region = None
    /\ done.frame.inputs[2].form = "Rptr"
    /\ done.frame.inputs[2].region = None
    /\ Len(done.ret.lifetimes) = 1
    /\ done.ret.lifetimes[1].lifetime_name = LifetimeName_Underscore

(***************************************************************************)
(* Properties of the desugarings.                                          *)
(***************************************************************************)
\* C11: an inclusive range without end, with or without start, is not
\* lowered: the pass raises a fatal error and stops, before it gives the
\* range or one of its operands an identity in the output; and no range
\* that was lowered is an inclusive one without end.
C11_InclusiveRangeWithoutEndIsFatal ==
    /\ done.op = "span_fatal" =>
          /\ panicked
          /\ done.ret.e2 = None
          /\ done.ret.lims = Closed
          /\ done.ret.expr = None
          /\ done.id \notin Mapped(node_id_to_hir_id)
          /\ \A i \in 1 .. Len(done.ret.e1) :
                done.ret.e1[i] \notin Mapped(node_id_to_hir_id)
    /\ done.op = "range" =>
          /\ ~panicked
          /\ ~(done.ret.e2 = None /\ done.ret.lims = Closed)

\* An inclusive range with a start and without end was met.
C11_Witness ==
    /\ done.op = "span_fatal"
    /\ done.ret.e1 # None
    /\ panicked

\* The name of the struct and the names of its fields for a range with
\* the bounds present and the limits given.
RangeTable(has_start, has_end, lims) ==
    CASE ~has_start /\ ~has_end /\ lims = HalfOpen -> <<"RangeFull", <<>>>>
      [] has_start /\ ~has_end /\ lims = HalfOpen -> <<"RangeFrom", <<"start">>>>
      [] ~has_start /\ has_end /\ lims = HalfOpen -> <<"RangeTo", <<"end">>>>
      [] has_start /\ has_end /\ lims = HalfOpen -> <<"Range", <<"start", "end">>>>
      [] ~has_start /\ has_end /\ lims = Closed -> <<"RangeToInclusive", <<"end">>>>
      [] has_start /\ has_end /\ lims = Closed -> <<"RangeInclusive", <<"start", "end">>>>

\* C12: a lowered range is the struct of ::std::ops that the table gives
\* for (has start, has end, limits): a path expression without fields when
\* it has no bound and else a struct literal whose fields are the bounds
\* present, `start` before `end`, each holding its lowered operand; the
\* result has the identity of the range expression.
C12_RangeTable ==
    done.op = "range" =>
        LET range == done.ret
            lowered == range.expr
            row == RangeTable(range.e1 # None, range.e2 # None, range.lims)
            operands == range.e1 \o range.e2
        IN  /\ lowered.id = done.id
            /\ done.id \in Mapped(node_id_to_hir_id)
            /\ lowered.path.segments = <<"{{root}}", "std", "ops", row[1]>>
            /\ lowered.node = IF row[2] = <<>> THEN "ExprPath" ELSE "ExprStruct"
            /\ Len(lowered.fields) = Len(row[2])
            /\ \A i \in 1 .. Len(row[2]) :
                  /\ lowered.fields[i].name = row[2][i]
                  /\ lowered.fields[i].expr.id = operands[i]
                  /\ operands[i] \in Mapped(node_id_to_hir_id)

\* An inclusive range with both bounds was lowered.
C12_Witness ==
    /\ done.op = "range"
    /\ done.ret.e1 # None
    /\ done.ret.e2 # None
    /\ done.ret.lims = Closed
    /\ done.ret.expr.node = "ExprStruct"

(***************************************************************************)
(* A reference interpreter for the output of the `for` desugaring.  The    *)
(* machine holds the values of the bindings the pass made (store, by id),  *)
(* the value of the variable x that the pattern of the loop binds, the     *)
(* list the head evaluates to, how often the head was evaluated and the    *)
(* calls of record made so far.  The head is the list; the body is         *)
(* `record(x)`.  An evaluation ends with a value, with a break on its way  *)
(* to its target, stuck, or out of fuel.                                   *)
(***************************************************************************)
MaxItems == 3
MaxItem == 3
Lists == UNION {[1 .. n -> 1 .. MaxItem] : n \in 0 .. MaxItems}

\* The values: one field each, named after the kind.
Unit == [unit |-> TRUE]
Uninit == [uninit |-> TRUE]

Machine(input) ==
    [store |-> <<>>, x |-> None, input |-> input, heads |-> 0, calls |-> <<>>,
     out |-> "value", value |-> Unit, target |-> None]

Value(m, v) == [m EXCEPT !.out = "value", !.value = v]
Stuck(m) == [m EXCEPT !.out = "stuck"]
Bind(m, id, v) == [m EXCEPT !.store = (id :> v) @@ @]
Bound(m, id) == id \in DOMAIN m.store /\ m.store[id] # Uninit

IsStdPath(x, components) ==
    /\ x.node = "ExprPath"
    /\ "path" \in DOMAIN x
    /\ x.path.segments = <<"{{root}}", "std">> \o components

\* The machine after the pattern p took the value v, or stuck when p
\* refuses it.
MatchPat(p, v, m) ==
    CASE p.node = "Binding" -> Bind(m, p.canonical_id, v)
      [] p.node = "Lowered" -> [m EXCEPT !.x = Some(v)]
      [] p.node = "Path" ->
            IF "none" \in DOMAIN v /\ Last(p.path.segments) = "None" THEN m ELSE Stuck(m)
      [] p.node = "TupleStruct" ->
            IF "some" \in DOMAIN v /\ Last(p.path.segments) = "Some"
               /\ Len(p.subpats) = 1 /\ p.subpats[1].node = "Binding"
            THEN Bind(m, p.subpats[1].canonical_id, v.some)
            ELSE Stuck(m)
      [] OTHER -> Stuck(m)

RECURSIVE Eval(_, _, _), EvalStmts(_, _, _), EvalBlock(_, _, _), EvalLoop(_, _, _), EvalArms(_, _, _, _)
\* The statements of a block, in order.
EvalStmts(stmts, m, fuel) ==
    IF stmts = <<>> \/ m.out # "value"
    THEN m
    ELSE The({EvalStmts(Tail(stmts), after, fuel) :
                 after \in {LET s == Head(stmts)
                            IN  IF s.node = "StmtExpr"
                                THEN Eval(s.expr, m, fuel)
                                ELSE IF s.local.init = None
                                THEN MatchPat(s.local.pat, Uninit, m)
                                ELSE The({IF init.out # "value" THEN init
                                          ELSE MatchPat(s.local.pat, init.value, init) :
                                             init \in {Eval(Unwrap(s.local.init), m, fuel)}})}})

\* A block: one the pass built, or the body of the loop, `record(x)`.
EvalBlock(b, m, fuel) ==
    IF "stmts" \notin DOMAIN b
    THEN IF m.x = None \/ "int" \notin DOMAIN Unwrap(m.x) THEN Stuck(m)
         ELSE Value([m EXCEPT !.calls = Append(@, Unwrap(m.x).int)], Unit)
    ELSE The({[(IF after.out # "value" \/ b.expr = None
                THEN after
                ELSE Eval(Unwrap(b.expr), after, fuel)) EXCEPT !.x = m.x] :
                 after \in {EvalStmts(b.stmts, Value(m, Unit), fuel)}})

\* `loop { .. }`: the block again and again, until a break to this loop.
EvalLoop(x, m, fuel) ==
    IF fuel = 0
    THEN [m EXCEPT !.out = "fuel"]
    ELSE The({CASE after.out = "value" -> EvalLoop(x, after, fuel - 1)
                [] after.out = "break" /\ after.target = ScopeTarget_Loop_Ok(x.id) ->
                      Value(after, Unit)
                [] OTHER -> after :
                 after \in {EvalBlock(x.block, m, fuel)}})

\* The first arm whose pattern takes the value.
EvalArms(arms, v, m, fuel) ==
    IF arms = <<>>
    THEN Stuck(m)
    ELSE The({IF taken.out = "stuck"
              THEN EvalArms(Tail(arms), v, m, fuel)
              ELSE Eval(Head(arms).body, taken, fuel) :
                 taken \in {MatchPat(Head(arms).pats[1], v, m)}})

Eval(x, m, fuel) ==
    CASE x.node = "ExprLit" ->
            Value([m EXCEPT !.heads = @ + 1], [list |-> m.input])
      [] x.node = "ExprPath" ->
            IF "def" \in DOMAIN x /\ Bound(m, x.def[2])
            THEN Value(m, m.store[x.def[2]])
            ELSE Stuck(m)
      [] x.node = "ExprAddrOf" ->
            IF x.expr.node = "ExprPath" /\ "def" \in DOMAIN x.expr /\ Bound(m, x.expr.def[2])
            THEN Value(m, [ref_mut |-> x.expr.def[2]])
            ELSE Stuck(m)
      [] x.node = "ExprAssign" ->
            The({IF rhs.out # "value" THEN rhs
                 ELSE IF x.lhs.node = "ExprPath" /\ "def" \in DOMAIN x.lhs
                         /\ x.lhs.def[2] \in DOMAIN rhs.store
                 THEN Value(Bind(rhs, x.lhs.def[2], rhs.value), Unit)
                 ELSE Stuck(rhs) :
                    rhs \in {Eval(x.rhs, m, fuel)}})
      [] x.node = "ExprCall" ->
            The({CASE arg.out # "value" -> arg
                   [] IsStdPath(x.callee, <<"iter", "IntoIterator", "into_iter">>)
                         /\ "list" \in DOMAIN arg.value ->
                         Value(arg, arg.value)
                   [] IsStdPath(x.callee, <<"iter", "Iterator", "next">>)
                         /\ "ref_mut" \in DOMAIN arg.value
                         /\ "list" \in DOMAIN arg.store[arg.value.ref_mut] ->
                         LET it == arg.store[arg.value.ref_mut].list
                         IN  IF it = <<>>
                             THEN Value(arg, [none |-> TRUE])
                             ELSE Value(Bind(arg, arg.value.ref_mut, [list |-> Tail(it)]),
                                        [some |-> [int |-> Head(it)]])
                   [] OTHER -> Stuck(arg) :
                    arg \in {Eval(x.args[1], m, fuel)}})
      [] x.node = "ExprMatch" ->
            The({IF arg.out # "value" THEN arg
                 ELSE EvalArms(x.arms, arg.value, arg, fuel) :
                    arg \in {Eval(x.arg, m, fuel)}})
      [] x.node = "ExprBlock" -> EvalBlock(x.block, m, fuel)
      [] x.node = "ExprLoop" -> EvalLoop(x, m, fuel)
      [] x.node = "ExprBreak" -> [m EXCEPT !.out = "break", !.target = x.target_id]
      [] OTHER -> Stuck(m)

\* The run of a lowered `for x in input { record(x) }`.
Run(lowered, input) == Eval(lowered, Machine(input), MaxItems + 1)

\* C13: the output of `for x in HEAD { record(x) }`, run on the reference
\* interpreter with HEAD a list of up to three items ([1, 2, 3] among
\* them), evaluates HEAD once, calls record with the items of the list in
\* their order and with nothing else, and then terminates with the value
\* of the block.
C13_ForLoopRuns ==
    (done.op = "for_loop" /\ ~panicked /\ done.frame.lowered[1].head.node = "ExprLit") =>
        \A input \in Lists :
            \E m \in {Run(done.ret, input)} :
                /\ m.out = "value"
                /\ m.calls = input
                /\ m.heads = 1
                /\ m.x = None

\* A `for` loop in a loop was lowered, and its output run on [1, 2, 3]
\* called record three times.
C13_Witness ==
    /\ done.op = "for_loop"
    /\ ~panicked
    /\ Len(loop_scopes) = 1
    /\ Run(done.ret, <<1, 2, 3>>).calls = <<1, 2, 3>>

(***************************************************************************)
(* Properties of the loop-condition flag.                                  *)
(***************************************************************************)
FlagHelpers == {"with_loop_scope", "with_loop_condition_scope", "with_new_scopes"}

\* C14: the in-loop-condition flag is true exactly while the innermost
\* running call among with_loop_scope, with_loop_condition_scope and
\* with_new_scopes is with_loop_condition_scope, which runs for the
\* condition of a `while` and the subject of a `while let` and not for the
\* body; it has its previous value when the loop is lowered.  An unlabeled
\* break or continue lowered while the flag is true gets the error target
\* UnlabeledCfInWhileCondition and else the innermost loop (or
\* OutsideLoopScope); a labeled one gets the loop of its label (or
\* UnresolvedLabel) whatever the flag.
C14_LoopConditionFlag ==
    ~panicked =>
        /\ is_in_loop_condition =
              (/\ Innermost(frames, FlagHelpers) # 0
               /\ frames[Innermost(frames, FlagHelpers)].kind = "with_loop_condition_scope")
        /\ \A i \in 1 .. Len(frames) :
              frames[i].kind = "with_loop_condition_scope" =>
                  /\ i > 1
                  /\ frames[i - 1].kind = "with_loop_scope"
                  /\ frames[i - 1].source \in {"while", "whilelet"}
        /\ (Len(frames) > 0 /\ Top.kind = "with_loop_scope") => ~is_in_loop_condition
        /\ done.frame.kind \in {"with_loop_scope", "with_loop_condition_scope"} =>
              is_in_loop_condition = done.frame.at_entry.is_in_loop_condition
        /\ done.op \in {"break", "continue"} =>
              done.ret.target_id =
                  IF is_in_loop_condition
                  THEN ScopeTarget_Loop_Err("UnlabeledCfInWhileCondition")
                  ELSE IF loop_scopes = <<>>
                  THEN ScopeTarget_Loop_Err("OutsideLoopScope")
                  ELSE ScopeTarget_Loop_Ok(Last(loop_scopes))
        /\ done.op \in {"break_labeled", "continue_labeled"} =>
              done.ret.target_id =
                  IF done.ret.def[1] = "Label"
                  THEN ScopeTarget_Loop_Ok(done.ret.def[2])
                  ELSE ScopeTarget_Loop_Err("UnresolvedLabel")

\* An unlabeled break was lowered in the subject of a `while let`, inside
\* the loop and with the flag set.
C14_Witness ==
    /\ ~panicked
    /\ done.op = "break"
    /\ is_in_loop_condition
    /\ Len(frames) > 1
    /\ Top.kind = "with_loop_condition_scope"
    /\ Top.source = "whilelet"
    /\ loop_scopes # <<>>
    /\ done.ret.target_id = ScopeTarget_Loop_Err("UnlabeledCfInWhileCondition")

(***************************************************************************)
(* Properties of `while let`.                                              *)
(***************************************************************************)
\* C21: `while let PAT = SUBJECT { BODY }` is lowered to
\* `loop { match SUBJECT { PAT => BODY, _ => break } }` under the identity
\* of the source expression; the break of the wildcard arm targets that
\* loop; while SUBJECT is lowered the loop is the innermost target and the
\* flag is set, and while BODY is lowered the loop is the innermost target
\* and the flag is clear.
C21_WhileLet ==
    ~panicked =>
        /\ done.op = "while_let" =>
              /\ done.ret.node = "ExprLoop"
              /\ done.ret.source = "WhileLet"
              /\ done.ret.id = done.id
              /\ done.id \in Mapped(node_id_to_hir_id)
              /\ done.ret.block.stmts = <<>>
              /\ \E m \in {Unwrap(done.ret.block.expr)} :
                    /\ m.node = "ExprMatch"
                    /\ m.source = "WhileLetDesugar"
                    /\ m.arg.node = "Lowered"
                    /\ m.arg.id \in Mapped(node_id_to_hir_id)
                    /\ Len(m.arms) = 2
                    /\ m.arms[1].pats = <<[node |-> "Lowered", id |-> done.frame.inputs[1]]>>
                    /\ m.arms[1].body.node = "ExprBlock"
                    /\ m.arms[1].body.block = done.frame.lowered[1].body
                    /\ Len(m.arms[2].pats) = 1
                    /\ m.arms[2].pats[1].node = "Wild"
                    /\ m.arms[2].body.node = "ExprBreak"
                    /\ m.arms[2].body.target_id = ScopeTarget_Loop_Ok(done.id)
        /\ \A i \in 1 .. Len(frames) :
              frames[i].source = "whilelet" =>
                 \E inner \in {{j \in (i + 1) .. Len(frames) : frames[j].kind \in FlagHelpers}} :
                    /\ (frames[i].kind = "with_loop_scope" /\ inner = {}) =>
                          /\ ~is_in_loop_condition
                          /\ Last(loop_scopes) = frames[i].id
                    /\ (frames[i].kind = "with_loop_condition_scope" /\ inner = {}) =>
                          /\ is_in_loop_condition
                          /\ Last(loop_scopes) = frames[i].expr

\* A `while let` with a statement in its body and a subject was lowered.
C21_Witness ==
    /\ ~panicked
    /\ done.op = "while_let"
    /\ done.frame.lowered[1].body.expr # None
    /\ Unwrap(done.ret.block.expr).arms[2].body.target_id = ScopeTarget_Loop_Ok(done.id)

(***************************************************************************)
(* Properties of lowering an id a second time.                             *)
(***************************************************************************)
\* The identities the table holds.
HandedOut(table) == {table[x + 1] : x \in Mapped(table)}

\* C23: lower_node_id and lower_node_id_with_owner for an id that is mapped
\* return the stored identity, raise no error and leave the table, every
\* owner's counter and the owner stack as they are, whichever owner is
\* active or named; next_id returns an identity that no id held before.
C23_SecondLoweringAliases ==
    [][/\ (/\ done'.op \in {"lower_node_id", "lower_node_id_with_owner"}
           /\ done'.id \in Mapped(node_id_to_hir_id)) =>
             /\ ~panicked'
             /\ done'.ret = LoweredNodeId(done'.id, node_id_to_hir_id[done'.id + 1])
             /\ node_id_to_hir_id' = node_id_to_hir_id
             /\ item_local_id_counters' = item_local_id_counters
             /\ current_hir_id_owner' = current_hir_id_owner
       /\ (done'.op = "next_id" /\ ~panicked') =>
             /\ done'.id \notin Mapped(node_id_to_hir_id)
             /\ done'.ret.hir_id # DUMMY_HIR_ID
             /\ done'.ret.hir_id \notin HandedOut(node_id_to_hir_id)
             /\ done'.ret.hir_id \in HandedOut(node_id_to_hir_id')
      ]_vars

\* An id mapped under one owner was lowered again naming another owner,
\* while a third owner's subtree was being lowered, after next_id was used.
C23_Witness ==
    /\ ~panicked
    /\ done.op = "lower_node_id_with_owner"
    /\ done.id \in PlainIds
    /\ done.ret.hir_id.owner # opt_def_index(done.owner)
    /\ Len(current_hir_id_owner) > 1
    /\ done.ret.hir_id.owner # Last(current_hir_id_owner)[1]
    /\ next_node_id > NumAstIds

(***************************************************************************)
(* Properties of the is-generator flag.                                    *)
(***************************************************************************)
BodyExits == {"visit_item", "with_new_scopes", "lower_body"}

\* C24: lower_body saves and clears the flag on entry, a `yield` lowered in
\* the body sets it, the body is recorded with the value the flag has when
\* its lowering ends, and the saved value is put back on exit; so while a
\* body is lowered the flag tells whether a `yield` of that body itself was
\* lowered (outside the closures and repeat counts nested in it), the
\* recorded body is a generator exactly when it holds such a `yield`, and
\* outside every body the flag is clear.
C24_GeneratorFlag ==
    ~panicked =>
        /\ is_generator = (EnclosingBody(frames) \in walk.yields)
        /\ \A i \in 1 .. Len(frames) :
              frames[i].kind = "lower_body" =>
                  /\ frames[i].prev = frames[i].at_entry.is_generator
                  /\ frames[i].prev = (EnclosingBody(SubSeq(frames, 1, i - 1)) \in walk.yields)
        /\ done.op = "yield" => is_generator
        /\ done.op \in BodyExits =>
              /\ done.ret.body_id \in DOMAIN bodies
              /\ bodies[done.ret.body_id].is_generator = (done.id \in walk.yields)
              /\ is_generator = done.frame.at_entry.is_generator
              /\ done.op = "with_new_scopes" =>
                    done.ret.is_generator = (done.id \in walk.yields)

\* A closure without `yield` of its own was lowered in a body that yielded
\* before it, in a function where a closure or a repeat count yields too.
C24_Witness ==
    /\ ~panicked
    /\ done.op = "with_new_scopes"
    /\ ~done.ret.is_generator
    /\ is_generator
    /\ \E c \in walk.yields : c > NumScopeItems

(***************************************************************************)
(* Properties of loops and closures in the condition of a loop.            *)
(***************************************************************************)
\* The call at `k` of the stack runs inside the condition of a `while` or
\* the subject of a `while let`.
InLoopCondition(k) ==
    \E j \in 1 .. (k - 1) : frames[j].kind = "with_loop_condition_scope"

\* C28: with_loop_scope and with_new_scopes clear the in-loop-condition
\* flag for their body and put the saved value back; so an unlabeled break
\* or continue in the body of a loop that stands in the condition of a
\* `while` targets that loop, and one in a closure that stands in such a
\* condition, outside any loop of the closure, is resolved against the
\* empty loop stack of the closure; neither gets the error of a break in a
\* loop condition.
C28_FlagClearedInNestedScopes ==
    ~panicked =>
        /\ done.frame.kind \in {"with_loop_scope", "with_new_scopes"} =>
              is_in_loop_condition = done.frame.at_entry.is_in_loop_condition
        /\ \E k \in {Innermost(frames, FlagHelpers)} :
              (k > 0 /\ frames[k].kind \in {"with_loop_scope", "with_new_scopes"}) =>
                  /\ ~is_in_loop_condition
                  /\ (done.op \in {"break", "continue"} /\ InLoopCondition(k)) =>
                        /\ frames[k].kind = "with_loop_scope" =>
                              done.ret.target_id = ScopeTarget_Loop_Ok(frames[k].id)
                        /\ frames[k].kind = "with_new_scopes" =>
                              /\ loop_scopes = <<>>
                              /\ done.ret.target_id = ScopeTarget_Loop_Err("OutsideLoopScope")

\* An unlabeled break was lowered in a closure that stands in the
\* condition of a `while`.
C28_Witness ==
    /\ ~panicked
    /\ done.op = "break"
    /\ Len(frames) > 0
    /\ Top.kind = "lower_body"
    /\ Top.source = "closure"
    /\ InLoopCondition(Len(frames))
    /\ \E j \in 1 .. Len(frames) : frames[j].kind = "with_loop_scope" /\ frames[j].source = "while"
    /\ done.ret.target_id = ScopeTarget_Loop_Err("OutsideLoopScope")

\* An unlabeled continue was lowered in the body of a loop that stands in
\* the subject of a `while let`.
C28_WitnessNestedLoop ==
    /\ ~panicked
    /\ done.op = "continue"
    /\ Len(frames) > 0
    /\ Top.kind = "with_loop_scope"
    /\ InLoopCondition(Len(frames))
    /\ done.ret.target_id = ScopeTarget_Loop_Ok(Top.id)

(***************************************************************************)
(* Properties of the targets of the jumps of a `for` loop.                 *)
(***************************************************************************)
\* The nodes of the output of a `for` loop: the match on into_iter(HEAD),
\* the loop, the lowered HEAD and the break made for the exhausted
\* iterator.
ForMatchOf(lowered) == Unwrap(lowered.block.stmts[1].local.init)
ForLoopOf(lowered) == ForMatchOf(lowered).arms[1].body
ForHeadOf(lowered) == ForMatchOf(lowered).arg.args[1]
ForBreakOf(lowered) == ForLoopOf(lowered).block.stmts[2].expr.arms[2].body

\* The target an unlabeled break or continue gets where the context is
\* `this`.
UnlabeledTarget(this) ==
    IF this.is_in_loop_condition
    THEN ScopeTarget_Loop_Err("UnlabeledCfInWhileCondition")
    ELSE IF this.loop_scopes = <<>>
    THEN ScopeTarget_Loop_Err("OutsideLoopScope")
    ELSE ScopeTarget_Loop_Ok(Last(this.loop_scopes))

\* What C29 says of the output of a `for` loop and of the jumps of its
\* body: the loop node has the id of the source expression and the block
\* around it an id the session made; the break made for the exhausted
\* iterator and the unlabeled jumps of the body target that id; a break
\* that is the HEAD does not.
ForLoopTargets ==
    /\ (done.op = "for_loop" /\ ~panicked) =>
          /\ done.ret.node = "ExprBlock"
          /\ done.ret.id >= NumScopeAstIds
          /\ done.ret.id # done.id
          /\ ForLoopOf(done.ret).node = "ExprLoop"
          /\ ForLoopOf(done.ret).source = "ForLoop"
          /\ ForLoopOf(done.ret).id = done.id
          /\ done.id \in Mapped(node_id_to_hir_id)
          /\ ForBreakOf(done.ret).node = "ExprBreak"
          /\ ForBreakOf(done.ret).target_id = ScopeTarget_Loop_Ok(done.id)
          /\ ForHeadOf(done.ret) = done.frame.lowered[1].head
          /\ ForHeadOf(done.ret).node = "ExprBreak" =>
                ForHeadOf(done.ret).target_id # ScopeTarget_Loop_Ok(done.id)
    /\ (done.op \in {"break", "continue"} /\ ~panicked) =>
          \E k \in {Innermost(frames, FlagHelpers)} :
              (k > 0 /\ frames[k].kind = "with_loop_scope" /\ frames[k].source = "for") =>
                  done.ret.target_id = ScopeTarget_Loop_Ok(frames[k].expr)

\* C29 as stated: moreover a break that is the HEAD targets the loop around
\* the `for` expression or is marked as outside any loop.
C29_ForLoopTargetsAsStated ==
    /\ ForLoopTargets
    /\ (done.op = "for_loop" /\ ~panicked /\ ForHeadOf(done.ret).node = "ExprBreak") =>
          ForHeadOf(done.ret).target_id =
              IF done.frame.at_entry.loop_scopes = <<>>
              THEN ScopeTarget_Loop_Err("OutsideLoopScope")
              ELSE ScopeTarget_Loop_Ok(Last(done.frame.at_entry.loop_scopes))

\* C29, amended: moreover a break that is the HEAD gets the target a break
\* gets where the `for` expression stands: the error of a jump in a loop
\* condition when the `for` expression stands in the condition of a
\* `while` or the subject of a `while let`, else the loop around it, or
\* the mark of a jump outside any loop.
C29_ForLoopTargets ==
    /\ ForLoopTargets
    /\ (done.op = "for_loop" /\ ~panicked /\ ForHeadOf(done.ret).node = "ExprBreak") =>
          ForHeadOf(done.ret).target_id = UnlabeledTarget(done.frame.at_entry)

\* A `for` loop whose HEAD is a break and whose body ends in a break was
\* lowered in the body of a loop.
C29_Witness ==
    /\ ~panicked
    /\ done.op = "for_loop"
    /\ loop_scopes # <<>>
    /\ ForHeadOf(done.ret).node = "ExprBreak"
    /\ ForHeadOf(done.ret).target_id = ScopeTarget_Loop_Ok(Last(loop_scopes))
    /\ done.frame.children = 1
    /\ ForBreakOf(done.ret).target_id = ScopeTarget_Loop_Ok(done.id)

(***************************************************************************)
(* Properties of the placement desugaring.                                 *)
(***************************************************************************)
IsLocal(x, name, binding) ==
    /\ x.node = "ExprPath"
    /\ "def" \in DOMAIN x
    /\ x.def = <<"Local", binding>>
    /\ x.name = name

IsCall(x, components, n) ==
    /\ x.node = "ExprCall"
    /\ IsStdPath(x.callee, components)
    /\ Len(x.args) = n

IsLet(stmt, name, bm) ==
    /\ stmt.node = "StmtDecl"
    /\ stmt.local.pat.node = "Binding"
    /\ stmt.local.pat.name = name
    /\ stmt.local.pat.bm = bm
    /\ stmt.local.init # None

RECURSIVE Operands(_)
\* The literals of the input in a lowered expression or statement, in the
\* order in which its evaluation meets them: the statements of a block
\* before its value, the arguments of a call from left to right.
Operands(x) ==
    CASE x.node = "ExprLit" -> <<x.id>>
      [] x.node = "ExprBlock" ->
            LET of_stmts[i \in 0 .. Len(x.block.stmts)] ==
                    IF i = 0 THEN <<>> ELSE of_stmts[i - 1] \o Operands(x.block.stmts[i])
            IN  of_stmts[Len(x.block.stmts)]
                    \o (IF x.block.expr = None THEN <<>> ELSE Operands(Unwrap(x.block.expr)))
      [] x.node = "StmtDecl" ->
            IF x.local.init = None THEN <<>> ELSE Operands(Unwrap(x.local.init))
      [] x.node = "StmtSemi" -> Operands(x.expr)
      [] x.node = "ExprAddrOf" -> Operands(x.expr)
      [] x.node = "ExprCall" ->
            LET of_args[i \in 0 .. Len(x.args)] ==
                    IF i = 0 THEN <<>> ELSE of_args[i - 1] \o Operands(x.args[i])
            IN  Operands(x.callee) \o of_args[Len(x.args)]
      [] OTHER -> <<>>

\* C25: `in PLACER VALUE` is lowered to
\* `{ let placer = PLACER; let mut place = Placer::make_place(placer);
\*    let p_ptr = Place::pointer(&mut place);
\*    { move_val_init(p_ptr, { VALUE }); InPlace::finalize(place) } }`
\* under the id of the source expression: the three bindings are the
\* statements of the block in this order, the initialization and then the
\* finalization are its value, and PLACER and VALUE occur once each, PLACER
\* where it is evaluated first.
C25_InPlace ==
    (done.op = "in_place" /\ ~panicked) =>
        \E b \in {done.ret.block} :
        \E v \in {Unwrap(done.ret.block.expr)} :
            /\ done.ret.node = "ExprBlock"
            /\ done.ret.id = done.id
            /\ done.id \in Mapped(node_id_to_hir_id)
            /\ Len(b.stmts) = 3
            /\ IsLet(b.stmts[1], "placer", "Unannotated")
            /\ Unwrap(b.stmts[1].local.init).node = "ExprLit"
            /\ Unwrap(b.stmts[1].local.init).id = done.id + 1
            /\ IsLet(b.stmts[2], "place", "Mutable")
            /\ IsCall(Unwrap(b.stmts[2].local.init), <<"ops", "Placer", "make_place">>, 1)
            /\ IsLocal(Unwrap(b.stmts[2].local.init).args[1], "placer", b.stmts[1].local.pat.id)
            /\ IsLet(b.stmts[3], "p_ptr", "Unannotated")
            /\ IsCall(Unwrap(b.stmts[3].local.init), <<"ops", "Place", "pointer">>, 1)
            /\ Unwrap(b.stmts[3].local.init).args[1].node = "ExprAddrOf"
            /\ IsLocal(Unwrap(b.stmts[3].local.init).args[1].expr, "place", b.stmts[2].local.pat.id)
            /\ v.node = "ExprBlock"
            /\ Len(v.block.stmts) = 1
            /\ v.block.stmts[1].node = "StmtSemi"
            /\ IsCall(v.block.stmts[1].expr, <<"intrinsics", "move_val_init">>, 2)
            /\ IsLocal(v.block.stmts[1].expr.args[1], "p_ptr", b.stmts[3].local.pat.id)
            /\ v.block.stmts[1].expr.args[2].node = "ExprBlock"
            /\ v.block.stmts[1].expr.args[2].block.stmts = <<>>
            /\ Unwrap(v.block.stmts[1].expr.args[2].block.expr).node = "ExprLit"
            /\ Unwrap(v.block.stmts[1].expr.args[2].block.expr).id = done.id + 2
            /\ IsCall(Unwrap(v.block.expr), <<"ops", "InPlace", "finalize">>, 1)
            /\ IsLocal(Unwrap(v.block.expr).args[1], "place", b.stmts[2].local.pat.id)
            /\ Operands(done.ret) = <<done.id + 1, done.id + 2>>

\* A placement expression was lowered in the body of a loop.
C25_Witness ==
    /\ ~panicked
    /\ done.op = "in_place"
    /\ loop_scopes # <<>>
    /\ Len(done.ret.block.stmts) = 3
    /\ Len(Operands(done.ret)) = 2

(***************************************************************************)
(* Properties of `impl Trait` in signatures.                               *)
(***************************************************************************)
\* The steps that lowered a function or a method, and what they lowered:
\* the source, the shapes of its argument and return type, the result.
SignatureSteps == {"visit_fn", "visit_assoc_item"}
Source == done.frame.lowered[1]
ArgShape == done.frame.inputs[1]
RetShape == done.frame.inputs[2]

\* The errors the step reported.
Reported ==
    SubSeq(diagnostics, Len(done.frame.at_entry.diagnostics) + 1, Len(diagnostics))

\* The type is the error placeholder of the source node `id`.
IsErrOf(ty, id) ==
    /\ ty.node = "TyErr"
    /\ ty.id = id
    /\ id \in Mapped(node_id_to_hir_id)

\* Return-position `impl Trait` is allowed for the function or method of
\* the step: for a function, and for a method of an impl of no trait.
ReturnAllowed ==
    \/ done.op = "visit_fn"
    \/ done.frame.source = "impl" /\ ~done.frame.at_entry.is_in_trait_impl

\* The `impl Trait` nodes of the source that stand where they are rejected.
RejectedIn(ast_fn) ==
    (IF ArgShape = "fnptr" THEN {ast_fn.decl.inputs[1].ty.decl.inputs[1].ty.id} ELSE {})
    \cup (IF ArgShape = "paren"
          THEN {ast_fn.decl.inputs[1].ty.bounds[1].trait_ref.parameters.types[1].id}
          ELSE {})
    \cup (IF RetShape = "fnptr_ret" THEN {Unwrap(Unwrap(ast_fn.decl.output).decl.output).id}
          ELSE {})
    \cup (IF RetShape = "impl" /\ ~ReturnAllowed THEN {Unwrap(ast_fn.decl.output).id} ELSE {})
    \cup (IF ast_fn.body.expr # None
          THEN {Unwrap(ast_fn.body.expr).decl.inputs[1].ty.id}
          ELSE {})

\* C22: `impl Trait` where it is rejected is reported once as E0562 and
\* lowered to the error type with the id of the source node, and the item
\* is lowered all the same; an argument `impl Trait` of a function or method
\* becomes a universal type of that function, a return type `impl Trait`
\* an existential type where it is allowed, and `impl Trait` is rejected in
\* the return type otherwise, in the signature of a closure, in a function
\* pointer type and in the arguments of `Fn(..)`.
C22_ImplTraitContexts ==
    done.op \in SignatureSteps =>
        /\ ~panicked
        /\ done.ret.id = Source.id
        /\ Source.id \in DOMAIN (CASE done.op = "visit_fn" -> items
                                   [] done.frame.source = "impl" -> impl_items
                                   [] OTHER -> trait_items)
        /\ {Reported[k].id : k \in {j \in 1 .. Len(Reported) : Reported[j].code = "E0562"}}
             = RejectedIn(Source)
        /\ Cardinality({k \in 1 .. Len(Reported) : Reported[k].code = "E0562"})
             = Cardinality(RejectedIn(Source))
        /\ ArgShape = "impl" =>
              /\ done.ret.decl.inputs[1].node = "TyImplTraitUniversal"
              /\ done.ret.decl.inputs[1].def_id = Source.id
        /\ ArgShape = "fnptr" =>
              /\ done.ret.decl.inputs[1].node = "TyBareFn"
              /\ IsErrOf(done.ret.decl.inputs[1].decl.inputs[1],
                         Source.decl.inputs[1].ty.decl.inputs[1].ty.id)
        /\ ArgShape = "paren" =>
              /\ done.ret.decl.inputs[1].node = "TyImplTraitUniversal"
              /\ done.ret.decl.inputs[1].def_id = Source.id
              /\ IsErrOf(done.ret.decl.inputs[1].bounds[1].poly_trait_ref.trait_ref
                             .parameters.types[1].tys[1],
                         Source.decl.inputs[1].ty.bounds[1].trait_ref.parameters.types[1].id)
        /\ RetShape = "impl" =>
              IF ReturnAllowed
              THEN /\ Unwrap(done.ret.decl.output).node = "TyImplTraitExistential"
                   /\ Unwrap(done.ret.decl.output).id = Unwrap(Source.decl.output).id
              ELSE IsErrOf(Unwrap(done.ret.decl.output), Unwrap(Source.decl.output).id)
        /\ RetShape = "fnptr_ret" =>
              /\ Unwrap(done.ret.decl.output).node = "TyBareFn"
              /\ IsErrOf(Unwrap(Unwrap(done.ret.decl.output).decl.output),
                         Unwrap(Unwrap(Source.decl.output).decl.output).id)
        /\ Source.body.expr # None =>
              IsErrOf(Unwrap(done.ret.expr).decl.inputs[1],
                      Unwrap(Source.body.expr).decl.inputs[1].ty.id)

\* A method of an impl of a trait with an argument `impl Fn(impl Tr)` and the
\* return type `impl Tr` was lowered.
C22_Witness ==
    /\ done.op = "visit_assoc_item"
    /\ done.frame.source = "impl"
    /\ done.frame.at_entry.is_in_trait_impl
    /\ ArgShape = "paren"
    /\ RetShape = "impl"
    /\ Len(Reported) = 2
    /\ ~panicked

(***************************************************************************)
(* Properties of the in-trait-impl flag.                                   *)
(***************************************************************************)
\* The impl a method of the crate belongs to.
ImplOf(method) == IF method = 4 THEN 3 ELSE 1

\* The impls whose associated items are being walked, innermost last.
ImplsWalked ==
    SelectSeq(frames, LAMBDA fr : fr.kind = "visit_item" /\ fr.source = "impl")

\* C26: the return type `impl Tr` of a method of an impl becomes an
\* existential type exactly if the impl is of no trait; the flag tells
\* whether the innermost impl whose associated items are being walked is of
\* a trait, and is false where no such impl is: it is set for the walk of
\* the items of an impl only, and is afterwards what it was before.
C26_InTraitImplFlag ==
    /\ walk.phase \in {"items", "done"} /\ ~panicked =>
          is_in_trait_impl = IF ImplsWalked = <<>> THEN FALSE
                             ELSE HeaderOf(Last(ImplsWalked).expr).of_trait
    /\ done.op = "visit_assoc_item" /\ done.frame.source = "impl" /\ RetShape = "impl" =>
          /\ Unwrap(done.ret.decl.output).node = "TyImplTraitExistential"
                <=> ~HeaderOf(ImplOf(done.id)).of_trait
          /\ Unwrap(done.ret.decl.output).node = "TyErr"
                <=> HeaderOf(ImplOf(done.id)).of_trait
    /\ done.op = "visit_item" /\ done.frame.source = "impl" =>
          is_in_trait_impl = done.frame.at_entry.is_in_trait_impl

\* The second method of an impl of a trait was lowered, with the return type
\* `impl Tr`, after an impl of no trait in the body of the first method,
\* whose method has that return type too.
C26_Witness ==
    /\ done.op = "visit_assoc_item"
    /\ done.id = 5
    /\ RetShape = "impl"
    /\ TheCrate.of_trait
    /\ TheCrate.nested # None
    /\ ~HeaderOf(3).of_trait
    /\ impl_items[4].decl.output # None
    /\ Unwrap(impl_items[4].decl.output).node = "TyImplTraitExistential"
    /\ Unwrap(done.ret.decl.output).node = "TyErr"

(***************************************************************************)
(* Properties of the lifetimes of the header of an impl or trait.          *)
(***************************************************************************)
\* The names the header h declares: `'h` where it stands in the list of
\* lifetime parameters, or, with in-band lifetimes on, where the type the
\* impl is for uses it.
DeclaredBy(h) ==
    IF h.declares \/ (in_band_lifetimes /\ h.kind = "impl" /\ h.self_ty = "ref_h")
    THEN <<HeaderName>>
    ELSE <<>>

\* The items whose associated items are being walked, outermost first.
ItemsWalked == SelectSeq(frames, LAMBDA fr : fr.kind = "visit_item")

RECURSIVE DeclaredByAll(_)
DeclaredByAll(walked) ==
    IF walked = <<>> THEN <<>>
    ELSE DeclaredBy(HeaderOf(Head(walked).expr)) \o DeclaredByAll(Tail(walked))

\* The step lowered a method that uses `'h`.
UsesHeaderName == ArgShape = "ref_h" \/ RetShape = "ref_h"

\* C27: while the associated items of impls and traits are lowered, the
\* visible lifetimes are the ones their headers declare, in the list of
\* parameters or in-band; a method that uses `'h` gets a parameter made for
\* it only where in-band lifetimes are on and no such header declares it;
\* and once the associated items of an item are lowered the visible
\* lifetimes are what they were before the item.
C27_HeaderLifetimesVisible ==
    /\ walk.phase \in {"items", "done"} /\ ~panicked =>
          in_scope_lifetimes = DeclaredByAll(ItemsWalked)
    /\ done.op = "visit_item_enter" /\ ~panicked =>
          [k \in 1 .. Len(Top.lifetimes) |-> Top.lifetimes[k].name]
             = DeclaredBy(HeaderOf(done.id))
    /\ done.op = "visit_assoc_item" /\ ~panicked =>
          [k \in 1 .. Len(done.ret.generics.lifetimes) |->
              done.ret.generics.lifetimes[k].name]
             = IF /\ UsesHeaderName
                  /\ in_band_lifetimes
                  /\ DeclaredByAll(ItemsWalked) = <<>>
               THEN <<HeaderName>>
               ELSE <<>>
    /\ done.op = "visit_item" /\ ~panicked =>
          in_scope_lifetimes = done.frame.at_entry.in_scope_lifetimes

\* A method that uses `'h` was lowered in an impl whose header declares it
\* in-band, and got no lifetime parameter.
C27_Witness ==
    /\ done.op = "visit_assoc_item"
    /\ done.frame.source = "impl"
    /\ done.id = 2
    /\ ~TheCrate.declares
    /\ TheCrate.self_ty = "ref_h"
    /\ in_band_lifetimes
    /\ UsesHeaderName
    /\ items[1].generics.lifetimes # <<>>
    /\ items[1].generics.lifetimes[1].in_band
    /\ done.ret.generics.lifetimes = <<>>
    /\ Contains(in_scope_lifetimes, HeaderName)

(***************************************************************************)
(* Properties of the item ids of a module.                                 *)
(***************************************************************************)
RECURSIVE TreeIds(_)
\* The ids of the trees nested in an import tree, at every depth.
TreeIds(tree) ==
    UNION {{tree.trees[k].id} \cup TreeIds(tree.trees[k].tree) : k \in 1 .. Len(tree.trees)}

\* The items of the module that are macro definitions, and the ids of the
\* imports nested in its imports.
MacroDefs(m) == {m.items[k].id : k \in {j \in 1 .. Len(m.items) : m.items[j].kind = "MacroDef"}}
NestedImports(m) == UNION {TreeIds(m.items[k].tree) : k \in 1 .. Len(m.items)}

ItemIdsOf(module) == {module.item_ids[k].id : k \in 1 .. Len(module.item_ids)}

\* C30: the pass never fails on a module of imports and macro definitions.
\* When ItemLowerer has visited an import, every import nested in it, at
\* every depth, has a counter of its own that the visit registered (it had
\* none before), holds local id 0 of its own owner, and is a key of the
\* items table.  When the pass ends, every id of the module's item-id list
\* is a key of the items table, the list holds every nested import, and a
\* macro definition is neither in the list nor a key of the table.
C30_ModuleItemIdsAreItems ==
    /\ TheCrateIsModule => ~panicked
    /\ done.op = "visit_mod_item" =>
          \A id \in TreeIds(done.frame.lowered[1].tree) :
              /\ id \notin DOMAIN done.frame.at_entry.item_local_id_counters
              /\ id \in DOMAIN item_local_id_counters
              /\ item_local_id_counters[id] # HIR_ID_COUNTER_LOCKED
              /\ node_id_to_hir_id[id + 1] = HirId(opt_def_index(id), 0)
              /\ id \in DOMAIN items
              /\ items[id].id = id
              /\ items[id].hir_id = node_id_to_hir_id[id + 1]
    /\ TheCrateIsModule /\ walk.phase = "done" =>
          /\ ItemIdsOf(done.ret.module) \subseteq DOMAIN items
          /\ NestedImports(TheCrate) \subseteq ItemIdsOf(done.ret.module)
          /\ MacroDefs(TheCrate) \cap ItemIdsOf(done.ret.module) = {}
          /\ MacroDefs(TheCrate) \cap DOMAIN items = {}

\* The pass has ended on a module with a macro definition and a
\* `pub(in path)` import with a list in a list.
C30_Witness ==
    /\ TheCrateIsModule
    /\ walk.phase = "done"
    /\ ~panicked
    /\ MacroDefs(TheCrate) # {}
    /\ \E k \in 1 .. Len(TheCrate.items) :
          /\ TheCrate.items[k].vis.kind = "Restricted"
          /\ Cardinality(TreeIds(TheCrate.items[k].tree)) = 4
          /\ TreeIds(TheCrate.items[k].tree) \subseteq DOMAIN items
    /\ Len(done.ret.module.item_ids) >= 5

====
